---- MODULE Spec2Model ----
(***************************************************************************)
(* A model of statiker, a configuration-driven HTTP edge server: the path  *)
(* confinement resolver, the static responder, the reverse proxy forwarder *)
(* and the request middleware pipeline.                                    *)
(*                                                                         *)
(* Strings are sequences of characters. A character is either one of the   *)
(* separators the code looks at ("/", ".", ",", " ", "?") or an atom that  *)
(* stands for a fixed non-empty run of ordinary characters ("a", "css",    *)
(* "203.0.113.5", ...). No two different character sequences used here     *)
(* spell the same text.                                                    *)
(***************************************************************************)
EXTENDS Integers, Sequences, FiniteSets, TLC

VARIABLES
    cfg,      \* AppState.cfg: the configuration, fixed after startup
    fs,       \* the filesystem collaborator: absolute path -> node
    limiter,  \* AppState.limiter: the keyed limiter's per-key state
    now,      \* the limiter's clock, in seconds
    last      \* the operation that ran last: its input, its result and what it touched

vars == <<cfg, fs, limiter, now, last>>

None == "None"

\* ------------------------------------------------------------------ bounds

\* longest relative path / tail handed to the resolver and the static responder
MaxLen == 4

\* largest size a served file grows to while another process appends to it
MaxBytes == 4

\* ----------------------------------------------------------------- strings

\* all strings over chars of length at most n
Strs(chars, n) == UNION {[1..k -> chars] : k \in 0..n}

RECURSIVE Split(_, _)
\* str::split(sep): the pieces between occurrences of sep, empty pieces kept
Split(s, sep) ==
    IF \A i \in 1..Len(s) : s[i] # sep
    THEN <<s>>
    ELSE LET i == CHOOSE k \in 1..Len(s) : s[k] = sep /\ \A j \in 1..(k - 1) : s[j] # sep
         IN  <<SubSeq(s, 1, i - 1)>> \o Split(SubSeq(s, i + 1, Len(s)), sep)

RECURSIVE TrimStartMatches(_, _)
\* str::trim_start_matches(c)
TrimStartMatches(s, c) ==
    IF Len(s) > 0 /\ s[1] = c THEN TrimStartMatches(Tail(s), c) ELSE s

RECURSIVE TrimEndMatches(_, _)
\* str::trim_end_matches(c)
TrimEndMatches(s, c) ==
    IF Len(s) > 0 /\ s[Len(s)] = c THEN TrimEndMatches(SubSeq(s, 1, Len(s) - 1), c) ELSE s

\* str::trim(): leading and trailing whitespace removed
Trim(s) == TrimEndMatches(TrimStartMatches(s, " "), " ")

RECURSIVE Flatten(_)
\* concatenation of a sequence of strings
Flatten(ss) == IF ss = <<>> THEN <<>> ELSE Head(ss) \o Flatten(Tail(ss))

\* the test `s.split('/').any(|p| p == "..")`
AnySegmentIsDotDot(s) ==
    LET segs == Split(s, "/") IN \E i \in 1..Len(segs) : segs[i] = <<".", ".">>

\* std::path::Path::components() on Unix: a leading "/" is RootDir, empty
\* segments are dropped, "." is kept only as the very first component of a
\* relative path, ".." is ParentDir, every other segment is Normal
Components(s) ==
    LET segs == Split(s, "/")
        hasRoot == Len(s) > 0 /\ s[1] = "/"
        comp(i) ==
            IF segs[i] = <<>> THEN [kind |-> "Skip"]
            ELSE IF segs[i] = <<".">>
                 THEN IF i = 1 THEN [kind |-> "CurDir"] ELSE [kind |-> "Skip"]
            ELSE IF segs[i] = <<".", ".">> THEN [kind |-> "ParentDir"]
            ELSE [kind |-> "Normal", name |-> segs[i]]
        all == [i \in 1..Len(segs) |-> comp(i)]
        kept == SelectSeq(all, LAMBDA c : c.kind # "Skip")
    IN  (IF hasRoot THEN <<[kind |-> "RootDir"]>> ELSE <<>>) \o kept

\* -------------------------------------------------------------- filesystem

\* A filesystem maps absolute paths (sequences of names) to nodes. The
\* directory "/" is the empty path and always exists.
File(bytes, readable) == [kind |-> "file", bytes |-> bytes, readable |-> readable]
Dir == [kind |-> "dir", readable |-> TRUE]
LockedDir == [kind |-> "dir", readable |-> FALSE]
Symlink(target) == [kind |-> "symlink", target |-> target]

\* nested symlinks followed by canonicalize before it gives up
MaxLinks == 2

NoPath == [ok |-> FALSE, path |-> <<>>]
NoNode == [kind |-> "missing"]

RECURSIVE CanonF(_, _, _)
\* std::fs::canonicalize: Ok(the path with every symlink resolved), or an
\* error when a component does not exist
CanonF(f, p, fuel) ==
    IF p = <<>> THEN [ok |-> TRUE, path |-> <<>>]
    ELSE LET parent == CanonF(f, SubSeq(p, 1, Len(p) - 1), fuel)
         IN  IF ~parent.ok THEN NoPath
             ELSE LET q == Append(parent.path, p[Len(p)])
                  IN  IF q \notin DOMAIN f THEN NoPath
                      ELSE IF f[q].kind = "symlink"
                           THEN IF fuel = 0 THEN NoPath ELSE CanonF(f, f[q].target, fuel - 1)
                      ELSE [ok |-> TRUE, path |-> q]

Canonicalize(f, p) == CanonF(f, p, MaxLinks)

\* tokio::fs::metadata: the node a path names, symlinks followed
Metadata(f, p) ==
    LET c == Canonicalize(f, p)
    IN  IF ~c.ok THEN NoNode ELSE IF c.path = <<>> THEN Dir ELSE f[c.path]

\* Path::starts_with: whole components
StartsWith(p, prefix) ==
    Len(prefix) <= Len(p) /\ SubSeq(p, 1, Len(prefix)) = prefix

\* one filesystem access made by an operation
Lookup(op, p) == [op |-> op, path |-> p]

\* ---------------------------------------------------------------- resolver

\* PathBuf::push of the Normal components, in order
PushNormal(base, comps) ==
    base \o [i \in 1..Len(SelectSeq(comps, LAMBDA c : c.kind = "Normal")) |->
                SelectSeq(comps, LAMBDA c : c.kind = "Normal")[i].name]

ResolveErr(why, lookups) == [ok |-> FALSE, err |-> why, path |-> <<>>, lookups |-> lookups]

\* a resolver that joins every segment and relies on canonicalization alone
resolve_canonical_only(f, root, rel_path) ==
    LET resolved == root \o SelectSeq(Split(rel_path, "/"), LAMBDA x : x # <<>>)
        root_canonical == Canonicalize(f, root)
        resolved_canonical == Canonicalize(f, resolved)
        lookups == <<Lookup("canonicalize", root), Lookup("canonicalize", resolved)>>
    IN  IF /\ root_canonical.ok
           /\ resolved_canonical.ok
           /\ ~StartsWith(resolved_canonical.path, root_canonical.path)
        THEN ResolveErr("Resolved path escapes root directory", lookups)
        ELSE [ok |-> TRUE, err |-> None, path |-> resolved, lookups |-> lookups]

\* a resolver that checks the components and never canonicalizes
resolve_components_only(f, root, rel_path) ==
    IF AnySegmentIsDotDot(rel_path)
    THEN ResolveErr("Path traversal detected in fallback path", <<>>)
    ELSE LET comps == IF rel_path = <<>> THEN <<>> ELSE Components(rel_path)
         IN  IF \E i \in 1..Len(comps) : comps[i].kind \notin {"Normal", "CurDir"}
             THEN ResolveErr("Invalid path component in fallback", <<>>)
             ELSE [ok |-> TRUE, err |-> None, path |-> PushNormal(root, comps),
                   lookups |-> <<>>]

\* resolve_path_within_root(root, rel_path) against filesystem f
resolve_path_within_root(f, root, rel_path) ==
    IF AnySegmentIsDotDot(rel_path)
    THEN ResolveErr("Path traversal detected in fallback path", <<>>)
    ELSE LET comps == IF rel_path = <<>> THEN <<>> ELSE Components(rel_path)
         IN  IF \E i \in 1..Len(comps) : comps[i].kind \notin {"Normal", "CurDir"}
             THEN ResolveErr("Invalid path component in fallback", <<>>)
             ELSE LET resolved == PushNormal(root, comps)
                      root_canonical == Canonicalize(f, root)
                      resolved_canonical == Canonicalize(f, resolved)
                      lookups == <<Lookup("canonicalize", root),
                                   Lookup("canonicalize", resolved)>>
                  IN  IF /\ root_canonical.ok
                         /\ resolved_canonical.ok
                         /\ ~StartsWith(resolved_canonical.path, root_canonical.path)
                      THEN ResolveErr("Resolved path escapes root directory", lookups)
                      ELSE [ok |-> TRUE, err |-> None, path |-> resolved,
                            lookups |-> lookups]

\* --------------------------------------------------------------- responses

Response(status, headers, body) ==
    [status |-> status, version |-> "HTTP/1.1", headers |-> headers, body |-> body]

\* StatusCode::X.into_response(): no headers, empty body
StatusResponse(status) == Response(status, <<>>, <<>>)

\* HeaderMap::insert: the value replaces every value of that name
Insert(headers, name, value) ==
    [n \in DOMAIN headers \cup {name} |-> IF n = name THEN value ELSE headers[n]]

\* HeaderMap::remove
Remove(headers, name) == [n \in DOMAIN headers \ {name} |-> headers[n]]

\* the text after the last "." of s, or the whole of s when it has none
AfterLastDot(s) ==
    LET parts == Split(s, ".") IN parts[Len(parts)]

\* mime_guess::from_path(p).first_or_octet_stream(), by the extension of the
\* file name
MimeOf(p) ==
    LET name == p[Len(p)]
        ext == IF \E i \in 1..Len(name) : name[i] = "." THEN AfterLastDot(name) ELSE <<>>
    IN  IF ext = <<"css">> THEN "text/css"
        ELSE IF ext = <<"html">> THEN "text/html"
        ELSE "application/octet-stream"

\* ------------------------------------------------------- directory listing

\* str::to_lowercase, per character
Lower(c) == IF c = "A" THEN "a" ELSE IF c = "B" THEN "b" ELSE c

ToLowercase(s) == [i \in 1..Len(s) |-> Lower(s[i])]

\* the byte order of the first byte of each character
CharRank(c) ==
    CASE c = " " -> 1 [] c = "&" -> 2 [] c = "." -> 3 [] c = "/" -> 4 [] c = "<" -> 5
      [] c = "A" -> 6 [] c = "B" -> 7 [] c = "a" -> 8 [] c = "b" -> 9 [] c = "css" -> 10
      [] c = "html" -> 11 [] c = "index" -> 12 [] OTHER -> 13

RECURSIVE StrCmp(_, _)
\* str::cmp: -1, 0 or 1, lexicographic
StrCmp(x, y) ==
    IF x = <<>> /\ y = <<>> THEN 0
    ELSE IF x = <<>> THEN -1
    ELSE IF y = <<>> THEN 1
    ELSE IF CharRank(x[1]) < CharRank(y[1]) THEN -1
    ELSE IF CharRank(x[1]) > CharRank(y[1]) THEN 1
    ELSE StrCmp(Tail(x), Tail(y))

\* a comparator that looks at the names only
ItemCmp_NamesOnly(x, y) == StrCmp(ToLowercase(x.name), ToLowercase(y.name))

\* the comparator of items.sort_by: directories first, then by lowercased name
ItemCmp(x, y) ==
    IF x.is_dir /\ ~y.is_dir THEN -1
    ELSE IF ~x.is_dir /\ y.is_dir THEN 1
    ELSE StrCmp(ToLowercase(x.name), ToLowercase(y.name))

RECURSIVE InsertSorted(_, _)
\* x placed after every element that does not compare greater than it
InsertSorted(sorted, x) ==
    IF sorted = <<>> THEN <<x>>
    ELSE IF ItemCmp(x, sorted[Len(sorted)]) >= 0 THEN Append(sorted, x)
    ELSE Append(InsertSorted(SubSeq(sorted, 1, Len(sorted) - 1), x), sorted[Len(sorted)])

RECURSIVE SortBy(_)
\* slice::sort_by: a stable sort
SortBy(items) ==
    IF items = <<>> THEN <<>>
    ELSE InsertSorted(SortBy(SubSeq(items, 1, Len(items) - 1)), items[Len(items)])

\* html_escape::encode_text
EncodeText(s) ==
    Flatten([i \in 1..Len(s) |->
        IF s[i] = "&" THEN <<"&amp;">> ELSE IF s[i] = "<" THEN <<"&lt;">> ELSE <<s[i]>>])

\* html_escape::encode_double_quoted_attribute
EncodeAttr(s) ==
    Flatten([i \in 1..Len(s) |-> IF s[i] = "&" THEN <<"&amp;">> ELSE <<s[i]>>])

\* Path::new(rel_path).parent() as a string: the path without its last
\* component, "" for a single component
ParentOf(rel_path) ==
    LET comps == Components(rel_path)
        names == [i \in 1..Len(comps) |->
                    IF comps[i].kind = "Normal" THEN comps[i].name ELSE <<".">>]
        front == SubSeq(names, 1, Len(names) - 1)
    IN  Flatten([i \in 1..Len(front) |->
                    IF i = 1 THEN front[i] ELSE <<"/">> \o front[i]])

\* the names read_dir(dir) yields, as a set
DirEntries(f, dir) ==
    LET c == Canonicalize(f, dir)
    IN  IF ~c.ok THEN {}
        ELSE {p[Len(p)] : p \in {q \in DOMAIN f : Len(q) = Len(c.path) + 1
                                                    /\ StartsWith(q, c.path)}}

\* the orders in which read_dir may yield the entries of a set of names
RECURSIVE Orders(_)
Orders(names) ==
    IF names = {} THEN {<<>>}
    ELSE UNION {{<<n>> \o o : o \in Orders(names \ {n})} : n \in names}

\* render_directory_listing(dir, rel_path), read_dir yielding the entries in
\* `order`: Ok(the HTML), or an error when the directory cannot be read
render_directory_listing(f, dir, rel_path, order) ==
    LET c == Canonicalize(f, dir)
        node == Metadata(f, dir)
    IN  IF node.kind # "dir" \/ ~node.readable THEN [ok |-> FALSE, html |-> <<>>]
        ELSE
        LET items == SortBy([i \in 1..Len(order) |->
                        [name |-> order[i],
                         is_dir |-> f[Append(c.path, order[i])].kind = "dir"]])
            title == IF rel_path = <<>> THEN <<"/">> ELSE <<"/">> \o rel_path
            parent == LET p == ParentOf(rel_path)
                      IN  <<"/">> \o (IF p = <<".">> THEN <<>> ELSE p)
            url(it) == (IF rel_path = <<>>
                        THEN <<"/">> \o it.name
                        ELSE <<"/">> \o TrimEndMatches(rel_path, "/") \o <<"/">> \o it.name)
                       \o (IF it.is_dir THEN <<"/">> ELSE <<>>)
        IN  [ok |-> TRUE, html |->
            <<"<title>">> \o EncodeText(title) \o <<"</title><h1>">> \o EncodeText(title)
            \o <<"</h1><ul>">>
            \o (IF rel_path # <<>>
                THEN <<"<li><a href=">> \o EncodeAttr(parent) \o <<">..</a></li>">>
                ELSE <<>>)
            \o Flatten([i \in 1..Len(items) |->
                    <<"<li><a href=">> \o EncodeAttr(url(items[i])) \o <<">">>
                    \o EncodeText(items[i].name) \o <<"</a></li>">>])
            \o <<"</ul><hr>">>]

\* -------------------------------------------------------- static responder

\* the 200 response for a regular file whose metadata is meta and whose
\* content read returned bytes
FileResponse(path, meta, bytes, method) ==
    Response(200,
             ("content-type" :> MimeOf(path)) @@ ("content-length" :> Len(meta.bytes)),
             IF method = "HEAD" THEN <<>> ELSE bytes)

\* the 200 response for a rendered listing
ListingResponse(html, method) ==
    Response(200,
             ("content-type" :> "text/html; charset=utf-8") @@ ("content-length" :> Len(html)),
             IF method = "HEAD" THEN <<>> ELSE html)

\* a regular file whose metadata was meta: tokio::fs::read runs against f2,
\* the filesystem as it is when the read is scheduled
ServeFile(f2, path, meta, method, lookups) ==
    LET looked == Append(lookups, Lookup("read", path))
        node == Metadata(f2, path)
    IN  IF node.kind = "file" /\ node.readable
        THEN [res |-> FileResponse(path, meta, node.bytes, method), lookups |-> looked]
        ELSE [res |-> StatusResponse(500), lookups |-> looked]

\* the auto-index branch: a listing, or 500 when the directory cannot be read
ServeListing(f, path, rel, method, order, lookups) ==
    LET html == render_directory_listing(f, path, rel, order)
        looked == Append(lookups, Lookup("read_dir", path))
    IN  IF ~html.ok
        THEN [res |-> StatusResponse(500), lookups |-> looked]
        ELSE [res |-> ListingResponse(html.html, method), lookups |-> looked]

\* a method check that lets every method through
MethodAllowed_Any(method) == TRUE

\* the match on req.method(): only GET and HEAD pass
MethodAllowed(method) == method \in {"GET", "HEAD"}

\* root.join(tail) with no check of the segments
StaticPath_Joined(c, tail) ==
    LET rel == TrimStartMatches(tail, "/")
        segs == SelectSeq(Split(rel, "/"), LAMBDA x : x # <<>>)
    IN  [ok |-> TRUE, rel |-> rel, path |-> c.root \o segs]

\* the filesystem path serve_static derives from the tail: rejected when a
\* segment is ".." or a component is not a normal name
StaticPath(c, tail) ==
    IF AnySegmentIsDotDot(tail)
    THEN [ok |-> FALSE, rel |-> <<>>, path |-> <<>>]
    ELSE LET rel == TrimStartMatches(tail, "/")
             comps == IF rel = <<>> THEN <<>> ELSE Components(rel)
         IN  IF \E i \in 1..Len(comps) : comps[i].kind # "Normal"
             THEN [ok |-> FALSE, rel |-> rel, path |-> <<>>]
             ELSE [ok |-> TRUE, rel |-> rel, path |-> PushNormal(c.root, comps)]

\* a match that lists a directory without looking for its index file
ServePath_ListingFirst(c, f, f2, fs_path, rel, method, order) ==
    LET l1 == <<Lookup("metadata", fs_path)>>
    IN  IF Metadata(f, fs_path).kind = "file"
        THEN ServeFile(f2, fs_path, Metadata(f, fs_path), method, l1)
        ELSE IF Metadata(f, fs_path).kind = "dir" /\ c.auto_index
        THEN ServeListing(f, fs_path, rel, method, order, l1)
        ELSE [res |-> StatusResponse(404), lookups |-> l1]

\* the match on tokio::fs::metadata(&fs_path): a file is served; a directory
\* serves its index file when that is a regular file, else its listing when
\* auto_index is set, else 404; anything else is 404
ServePath(c, f, f2, fs_path, rel, method, order) ==
    LET index_path == Append(fs_path, c.index)
        meta == [p \in {fs_path, index_path} |-> Metadata(f, p)]
        l1 == <<Lookup("metadata", fs_path)>>
        l2 == Append(l1, Lookup("metadata", index_path))
        is_file == meta[fs_path].kind = "file"
        is_dir == meta[fs_path].kind = "dir"
        target == IF is_file THEN fs_path ELSE index_path
    IN  IF is_file \/ (is_dir /\ meta[index_path].kind = "file")
        THEN ServeFile(f2, target, meta[target], method, IF is_file THEN l1 ELSE l2)
        ELSE IF is_dir /\ c.auto_index
        THEN ServeListing(f, fs_path, rel, method, order, l2)
        ELSE IF is_dir
        THEN [res |-> StatusResponse(404), lookups |-> l2]
        ELSE [res |-> StatusResponse(404), lookups |-> l1]

\* serve_static(state, tail, req): f is the filesystem when the request
\* arrives, f2 the filesystem when a file's content is read, and read_dir
\* yields a listed directory's entries in `order`
serve_static(c, f, f2, tail, method, order) ==
    IF ~MethodAllowed(method)
    THEN [res |-> StatusResponse(405), lookups |-> <<>>]
    ELSE LET p == StaticPath(c, tail)
         IN  IF ~p.ok
             THEN [res |-> StatusResponse(403), lookups |-> <<>>]
             ELSE ServePath(c, f, f2, p.path, p.rel, method, order)

\* ------------------------------------------------------------------- proxy

\* Option<T>
Some(v) == [some |-> TRUE, v |-> v]
Nothing == [some |-> FALSE, v |-> <<>>]
NoAddr == [some |-> FALSE, v |-> ""]

\* the header names strip_hop_by_hop removes
HopByHop ==
    {"connection", "proxy-connection", "keep-alive", "transfer-encoding", "upgrade",
     "te", "trailers"}

\* HeaderName::from_str: Ok(the name in lower case) for a legal token
HeaderNameFromStr(k) ==
    CASE k = "X-Real-IP" -> Some("x-real-ip")
      [] k = "X-Forwarded-For" -> Some("x-forwarded-for")
      [] k = "Connection" -> Some("connection")
      [] k = "TE" -> Some("te")
      [] k = "X-Tag" -> Some("x-tag")
      [] k = "Cache-Control" -> Some("cache-control")
      [] k = "X-Frame-Options" -> Some("x-frame-options")
      [] k = "bad name" -> NoAddr
      [] OTHER -> Some(k)

\* HeaderValue::from_str succeeds: no control character in the text
HeaderValueOk(v) == \A i \in 1..Len(v) : v[i] # "LF"

\* HeaderValue::to_str succeeds: every byte is visible ASCII
ToStrOk(v) == \A i \in 1..Len(v) : v[i] # "0xFF"

\* str::replace("{client_ip}", ip)
ReplaceClientIp(v, ip) ==
    Flatten([i \in 1..Len(v) |-> IF v[i] = "{client_ip}" THEN ip ELSE <<v[i]>>])

\* Uri::from_str succeeds: no character that is illegal in a URI
UriOk(u) == \A i \in 1..Len(u) : u[i] # " "

\* the position of the first "#" of u, or Len(u) + 1
FragmentStart(u) ==
    IF \E i \in 1..Len(u) : u[i] = "#"
    THEN CHOOSE i \in 1..Len(u) : u[i] = "#" /\ \A j \in 1..(i - 1) : u[j] # "#"
    ELSE Len(u) + 1

\* Uri::from_str(u): the parsed URI keeps scheme, authority, path and query;
\* a fragment is cut off
UriFromStr(u) ==
    IF UriOk(u) THEN [ok |-> TRUE, uri |-> SubSeq(u, 1, FragmentStart(u) - 1)]
    ELSE [ok |-> FALSE, uri |-> <<>>]

\* IpAddr::to_string
IpToString(ip) == <<ip>>

\* the addresses written in the model's header values
IpLiterals == {"203.0.113.5", "10.0.0.1", "0.0.0.0"}

\* str::parse::<IpAddr>
ParseIp(str) ==
    IF Len(str) = 1 /\ str[1] \in IpLiterals THEN Some(str[1]) ELSE NoAddr

\* a strip_hop_by_hop whose list lacks "te" and "trailers"
strip_hop_by_hop_short(headers) ==
    [n \in DOMAIN headers \ {"connection", "proxy-connection", "keep-alive",
                             "transfer-encoding", "upgrade"} |-> headers[n]]

\* strip_hop_by_hop(headers)
strip_hop_by_hop(headers) == [n \in DOMAIN headers \ HopByHop |-> headers[n]]

\* client_ip(req): the whole X-Forwarded-For value when the header is there
\* (nothing when it is not text), else the address of the SocketAddr
\* extension of the request
client_ip(req) ==
    IF "x-forwarded-for" \in DOMAIN req.headers
    THEN IF ToStrOk(req.headers["x-forwarded-for"])
         THEN Some(req.headers["x-forwarded-for"])
         ELSE Nothing
    ELSE IF req.ext.some THEN Some(IpToString(req.ext.v)) ELSE Nothing

\* the address substituted for {client_ip}
ClientIpOrUnknown(req) ==
    IF client_ip(req).some THEN client_ip(req).v ELSE <<"unknown">>

\* a proxy state that keeps a zero timeout
ProxyStateNew_NoDefault(p) ==
    [target |-> TrimEndMatches(p.url, "/"),
     timeout |-> p.timeout,
     add_headers |-> <<>>]

\* ProxyState::new(p): the url without trailing slashes, the timeout (5 s for
\* zero) and the extra headers whose names are legal
ProxyStateNew(p) ==
    [target |-> TrimEndMatches(p.url, "/"),
     timeout |-> IF p.timeout = 0 THEN 5 ELSE p.timeout,
     add_headers |->
        LET valid == SelectSeq(p.add_headers, LAMBDA kv : HeaderNameFromStr(kv[1]).some)
        IN  [i \in 1..Len(valid) |-> <<HeaderNameFromStr(valid[i][1]).v, valid[i][2]>>]]

RECURSIVE AddHeaders_KeepInbound(_, _, _)
\* a loop that leaves a header alone when the request already has it
AddHeaders_KeepInbound(headers, add, ip) ==
    IF add = <<>> THEN headers
    ELSE LET vv == ReplaceClientIp(add[1][2], ip)
         IN  AddHeaders_KeepInbound(
                IF HeaderValueOk(vv) /\ add[1][1] \notin DOMAIN headers
                THEN Insert(headers, add[1][1], vv) ELSE headers,
                Tail(add), ip)

RECURSIVE AddHeaders(_, _, _)
\* the loop over pstate.add_headers: each value with {client_ip} replaced is
\* inserted, or skipped when it is no legal header value
AddHeaders(headers, add, ip) ==
    IF add = <<>> THEN headers
    ELSE LET vv == ReplaceClientIp(add[1][2], ip)
         IN  AddHeaders(IF HeaderValueOk(vv) THEN Insert(headers, add[1][1], vv) ELSE headers,
                        Tail(add), ip)

\* the request handed to HTTP_CLIENT.request
UpstreamRequest(pstate, uri, req) ==
    [method |-> req.method, uri |-> uri, body |-> req.body,
     headers |-> strip_hop_by_hop(
                    AddHeaders(req.headers, pstate.add_headers, ClientIpOrUnknown(req)))]

\* a body that is one chunk made of all the data received
StreamBody_Collected(frames) ==
    IF frames = <<>> THEN <<>>
    ELSE <<Flatten([i \in 1..Len(frames) |->
                        IF frames[i].kind = "data" THEN frames[i].bytes ELSE <<>>])>>

\* frame.into_data().unwrap_or_else(|_| Bytes::new()) over the upstream body
StreamBody(frames) ==
    [i \in 1..Len(frames) |-> IF frames[i].kind = "data" THEN frames[i].bytes ELSE <<>>]

\* proxy_forward(pstate, tail, req): `outcome` is what the upstream call
\* yields within the timeout: a response, a transport error, or nothing
proxy_forward(pstate, tail, req, outcome) ==
    LET upstream == pstate.target \o <<"/">> \o tail
                    \o (IF req.query.some THEN <<"?">> \o req.query.v ELSE <<>>)
    IN  IF ~UriFromStr(upstream).ok
        THEN [res |-> StatusResponse(502), sent |-> <<>>]
        ELSE LET sent == <<UpstreamRequest(pstate, UriFromStr(upstream).uri, req)>>
             IN  IF outcome.kind = "response"
                 THEN [res |-> [status |-> outcome.res.status,
                                version |-> outcome.res.version,
                                headers |-> strip_hop_by_hop(outcome.res.headers),
                                body |-> StreamBody(outcome.res.frames)],
                       sent |-> sent]
                 ELSE [res |-> StatusResponse(502), sent |-> sent]

\* ----------------------------------------------------------- configuration

\* file and directory names
NameSrv == <<"srv">>
NameEtc == <<"etc">>
NameA == <<"a">>
NameCss == <<"css">>
NameACss == <<"a", ".", "css">>
NameAA == <<"a", "a">>
NameIndex == <<"index", ".", "html">>

\* Config::default(), with the confinement root an absolute directory
DefaultConfig ==
    [root |-> <<NameSrv>>,
     index |-> NameIndex,
     auto_index |-> FALSE,
     routing |-> <<>>,
     spa |-> [enabled |-> FALSE, fallback |-> <<"index", ".", "html">>],
     cache |-> [enabled |-> FALSE, max_age |-> 3600],
     rate_limit |-> [enabled |-> FALSE, requests_per_min |-> 60],
     headers |-> <<>>,
     tls |-> [enabled |-> FALSE, cert_path |-> <<>>, key_path |-> <<>>]]

\* the filesystems the server is run against
FsMissing ==
    (<<NameEtc>> :> Dir) @@ (<<NameEtc, NameA>> :> File(<<"r", "o", "o", "t">>, TRUE))

FsSite ==
    (<<NameSrv>> :> Dir)
    @@ (<<NameSrv, NameIndex>> :> File(<<"h", "t", "m", "l">>, TRUE))
    @@ (<<NameSrv, NameA>> :> Dir)
    @@ (<<NameSrv, NameA, NameA>> :> File(<<"x", "y", "z", "w">>, TRUE))
    @@ (<<NameSrv, NameA, NameCss>> :> File(<<"x", "y", "z", "w">>, FALSE))
    @@ (<<NameSrv, NameACss>> :> File(<<"x", "y", "z">>, TRUE))
    @@ (<<NameSrv, NameCss>> :> Dir)
    @@ (<<NameSrv, NameCss, NameIndex>> :> Dir)
    @@ (<<NameSrv, NameAA>> :> Symlink(<<NameEtc>>))
    @@ FsMissing

FsFlat ==
    (<<NameSrv>> :> Dir)
    @@ (<<NameSrv, NameA>> :> File(<<"x", "y", "z">>, TRUE))
    @@ (<<NameSrv, NameCss>> :> Symlink(<<NameSrv, NameA>>))
    @@ FsMissing

\* a site whose index file and whose directory a cannot be read
FsLocked ==
    (<<NameSrv>> :> Dir)
    @@ (<<NameSrv, NameIndex>> :> File(<<"h">>, FALSE))
    @@ (<<NameSrv, NameA>> :> LockedDir)
    @@ FsMissing

FileSystems == {FsMissing, FsSite, FsFlat, FsLocked}

\* the limiter before any request: no key has a state
NoKeys == <<>>

\* Route { path, serve, proxy }
Route(path, serve, proxy) == [path |-> path, serve |-> serve, proxy |-> proxy]

\* Proxy { url, timeout, add_headers }: the proxies of the configurations
ProxyConfigs ==
    {[url |-> <<"http://up", "/">>, timeout |-> 0,
      add_headers |-> << <<"X-Real-IP", <<"{client_ip}">> >> >>],
     [url |-> <<"http://up">>, timeout |-> 10,
      add_headers |-> << <<"Connection", <<"upgrade">> >>,
                         <<"X-Real-IP", <<"{client_ip}">> >>,
                         <<"TE", <<"for=", "{client_ip}">> >> >>],
     [url |-> <<"http://up">>, timeout |-> 10,
      add_headers |-> << <<"bad name", <<"v">> >>,
                         <<"X-Tag", <<"a", "LF", "b">> >>,
                         <<"X-Forwarded-For", <<"{client_ip}">> >> >>],
     [url |-> <<"http://up">>, timeout |-> 0, add_headers |-> <<>>],
     [url |-> <<"http://up">>, timeout |-> 0,
      add_headers |-> << <<"X-Real-IP", <<"{client_ip}">> >>,
                         <<"x-real-ip", <<"none">> >> >>],
     [url |-> <<"http://up">>, timeout |-> 0,
      add_headers |-> << <<"x-real-ip", <<"none">> >>,
                         <<"X-Real-IP", <<"{client_ip}">> >> >>]}

\* the peer addresses of the TCP connections the listener accepts
Peers == {"198.51.100.7"}

\* the SocketAddr extension of a request of a connection from `peer`: main
\* serves app.into_make_service() and axum::serve(listener, app), neither of
\* which records the peer address of the connection on the request
SocketAddrExtension(peer) == NoAddr

\* X-Forwarded-For values clients send
XffValues ==
    {<<"203.0.113.5">>,
     <<"203.0.113.5", ",", " ", "10.0.0.1">>,
     <<"0xFF">>}

\* ----------------------------------------------- specification: resolver

PathChars == {"/", ".", "a"}

\* paths naming the other entries of the filesystems above
NamedPaths ==
    {<<"css">>, <<"a", ".", "css">>, <<"a", "/", "css">>, <<"css", "/", "index", ".", "html">>,
     <<"index", ".", "html">>, <<"a", "a", "/", "a">>, <<"css", "/", ".", ".", "/", "a">>}

\* the relative paths handed to the resolver
RelPaths == Strs(PathChars, MaxLen) \cup NamedPaths

Roots == {<<NameSrv>>, <<NameSrv, NameA>>}

InitResolve ==
    /\ cfg \in {[DefaultConfig EXCEPT !.root = r] : r \in Roots}
    /\ fs \in FileSystems
    /\ limiter = NoKeys
    /\ now = 0
    /\ last = [op |-> "none"]

\* the caller takes the result of the operation that ran
Done ==
    /\ last.op # "none"
    /\ last' = [op |-> "none"]
    /\ UNCHANGED <<cfg, fs, limiter, now>>

\* a call resolve_path_within_root(&state.root, rel)
Resolve ==
    /\ last.op = "none"
    /\ \E rel \in RelPaths :
        /\ last' = [op |-> "resolve", root |-> cfg.root, rel |-> rel,
                    res |-> resolve_path_within_root(fs, cfg.root, rel)]
        /\ UNCHANGED <<cfg, fs, limiter, now>>

NextResolve == Resolve \/ Done

SpecResolve == InitResolve /\ [][NextResolve]_vars

\* a ".." segment, stated on the characters: two dots with a "/" or an end of
\* the string on either side
HasParentSegment(s) ==
    \E i \in 1..(Len(s) - 1) :
        /\ s[i] = "." /\ s[i + 1] = "."
        /\ (i = 1 \/ s[i - 1] = "/")
        /\ (i + 1 = Len(s) \/ s[i + 2] = "/")

\* C1: every relative path with a segment equal to ".." is rejected by
\* resolve_path_within_root, whatever the root and the filesystem hold, and
\* no filesystem lookup is made for it.
C1_TraversalRejected ==
    (last.op = "resolve" /\ HasParentSegment(last.rel))
        => (~last.res.ok /\ last.res.lookups = <<>>)

\* a path with a ".." segment below an existing directory was resolved
C1_Witness ==
    /\ last.op = "resolve"
    /\ last.rel = <<"a", "/", ".", ".">>
    /\ fs = FsSite
    /\ ~last.res.ok

\* the segments of s that are names: not empty, not "."
NameSegments(s) == SelectSeq(Split(s, "/"), LAMBDA x : x \notin {<<>>, <<".">>})

\* root and p both exist and the canonical form of p is not below that of root
EscapesRoot(f, root, p) ==
    /\ Canonicalize(f, root).ok
    /\ Canonicalize(f, p).ok
    /\ ~StartsWith(Canonicalize(f, p).path, Canonicalize(f, root).path)

\* C24: a path is accepted by resolve_path_within_root exactly when it is
\* not absolute, has no ".." segment and the root with its name segments does
\* not canonicalize outside the root; the accepted path is the root followed
\* by the name segments in order, "." and empty segments adding nothing.
C24_ResolvedShape ==
    last.op = "resolve"
        => /\ last.res.ok
                <=> ~(\/ (last.rel # <<>> /\ last.rel[1] = "/")
                      \/ HasParentSegment(last.rel)
                      \/ EscapesRoot(fs, last.root, last.root \o NameSegments(last.rel)))
           /\ last.res.ok
                => /\ last.res.path = last.root \o NameSegments(last.rel)
                   /\ ~EscapesRoot(fs, last.root, last.res.path)

\* ./a was accepted as root/a, and aa, a link to /etc, was rejected
C24_Witness ==
    /\ last.op = "resolve"
    /\ fs = FsSite
    /\ last.root = <<NameSrv>>
    /\ \/ /\ last.rel = <<".", "/", "a">>
          /\ last.res.ok
          /\ last.res.path = <<NameSrv, NameA>>
       \/ /\ last.rel = <<"a", "a">>
          /\ ~last.res.ok

\* ---------------------------------------- specification: static responder

Methods == {"GET", "HEAD", "POST"}

\* the tails the router hands to serve_static
StaticTails == Strs(PathChars, MaxLen) \cup NamedPaths

InitStatic ==
    /\ cfg \in {[DefaultConfig EXCEPT !.auto_index = b] : b \in BOOLEAN}
    /\ fs \in FileSystems
    /\ limiter = NoKeys
    /\ now = 0
    /\ last = [op |-> "none"]

\* the file whose content a request for a tail reads, if it reads one: the
\* file the tail names, or the index file of the directory it names
ReadTargets(c, f, tail) ==
    LET p == StaticPath(c, tail)
        q == IF Metadata(f, p.path).kind = "dir" THEN Append(p.path, c.index) ELSE p.path
    IN  IF p.ok /\ Metadata(f, q).kind = "file" THEN {Canonicalize(f, q).path} ELSE {}

\* the filesystem when the file's content is read: as it was at the metadata
\* lookup, or with the file made a byte longer by another process meanwhile
FsAtRead(f, targets) ==
    {f} \cup {[f EXCEPT ![p].bytes = Append(@, "n")] :
                p \in {q \in targets : Len(f[q].bytes) < MaxBytes}}

\* the orders in which read_dir may yield the entries of the directory a
\* tail names
ReadDirOrders(c, f, tail) ==
    LET p == StaticPath(c, tail)
    IN  IF p.ok /\ c.auto_index THEN Orders(DirEntries(f, p.path)) ELSE {<<>>}

\* a request dispatched to serve_static(state, tail, req)
ServeStatic ==
    /\ last.op = "none"
    /\ \E method \in Methods, tail \in StaticTails :
        \E f2 \in FsAtRead(fs, ReadTargets(cfg, fs, tail)), order \in ReadDirOrders(cfg, fs, tail) :
            LET r == serve_static(cfg, fs, f2, tail, method, order)
            IN  /\ last' = [op |-> "serve_static", method |-> method, tail |-> tail,
                            fs0 |-> fs, res |-> r.res, lookups |-> r.lookups]
                /\ fs' = f2
    /\ UNCHANGED <<cfg, limiter, now>>

NextStatic == ServeStatic \/ Done

SpecStatic == InitStatic /\ [][NextStatic]_vars

\* C2: a GET or HEAD whose tail has a ".." segment is answered 403 by
\* serve_static, and no metadata lookup, file read or directory enumeration
\* is made for it.
C2_TraversalForbidden ==
    (/\ last.op = "serve_static"
     /\ last.method \in {"GET", "HEAD"}
     /\ HasParentSegment(last.tail))
        => (last.res.status = 403 /\ last.lookups = <<>>)

\* GET ../a on a filesystem where /etc/a, outside the root, exists
C2_Witness ==
    /\ last.op = "serve_static"
    /\ last.method = "GET"
    /\ last.tail = <<".", ".", "/", "a">>
    /\ last.res.status = 403

\* C3: a request whose method is neither GET nor HEAD is answered 405 by
\* serve_static whatever the tail is, without any filesystem access.
C3_MethodNotAllowed ==
    (last.op = "serve_static" /\ last.method \notin {"GET", "HEAD"})
        => (last.res.status = 405 /\ last.lookups = <<>>)

\* POST with a tail that has a ".." segment, and POST of an existing file
C3_Witness ==
    /\ last.op = "serve_static"
    /\ last.method = "POST"
    /\ last.tail = <<".", ".">>
    /\ last.res.status = 405

\* the names of a tail whose segments are all plain names
PlainNames(tail) == SelectSeq(Split(tail, "/"), LAMBDA x : x # <<>>)

\* the tail names an existing regular file below the root: no "." or ".."
\* segment, and the metadata of root/tail is that of a file
ResolvesToFile(c, f, tail) ==
    /\ \A i \in 1..Len(PlainNames(tail)) :
            PlainNames(tail)[i] \notin {<<".">>, <<".", ".">>}
    /\ Metadata(f, c.root \o PlainNames(tail)).kind = "file"

\* C4: for every tail that resolves to an existing regular file, a GET or
\* HEAD is answered 200 with a Content-Length header; on GET its value is the
\* number of body bytes sent, on HEAD the body is empty and the value is the
\* size of the file.
C4_ContentLengthExact ==
    (/\ last.op = "serve_static"
     /\ last.method \in {"GET", "HEAD"}
     /\ ResolvesToFile(cfg, last.fs0, last.tail))
        => /\ last.res.status = 200
           /\ "content-length" \in DOMAIN last.res.headers
           /\ last.method = "GET"
                => last.res.headers["content-length"] = Len(last.res.body)
           /\ last.method = "HEAD"
                => /\ last.res.body = <<>>
                   /\ last.res.headers["content-length"]
                        = Len(Metadata(last.fs0, cfg.root \o PlainNames(last.tail)).bytes)

\* C25: whatever another process does to the served file between the
\* metadata lookup and the read, the Content-Length of a 200 response to a
\* GET is the number of bytes of its body.
C25_LengthOfSameVersion ==
    (/\ last.op = "serve_static"
     /\ last.method = "GET"
     /\ last.res.status = 200)
        => /\ "content-length" \in DOMAIN last.res.headers
           /\ last.res.headers["content-length"] = Len(last.res.body)

\* ------------------------------------------------ specification: proxy

MaxHeaders == 2

\* the header names of inbound requests
InboundNames == HopByHop \cup {"x-forwarded-for", "x-real-ip", "content-type"}

\* the header maps of inbound requests: at most MaxHeaders names
InboundHeaders ==
    UNION {{[n \in S |-> IF n = "x-forwarded-for" THEN x ELSE <<"v">>] : x \in XffValues} :
            S \in {T \in SUBSET InboundNames : Cardinality(T) <= MaxHeaders}}

\* method, tail, query and body of the requests routed to the proxy
ProxyShapes ==
    {[method |-> "GET", tail |-> <<"x">>, query |-> Nothing, body |-> <<>>],
     [method |-> "POST", tail |-> <<"x">>, query |-> Some(<<"q">>), body |-> <<"b">>],
     [method |-> "GET", tail |-> <<"x", " ", "y">>, query |-> Nothing, body |-> <<>>],
     [method |-> "GET", tail |-> <<"x", "#", "y">>, query |-> Some(<<"q">>), body |-> <<>>]}

ProxyRequests ==
    {[method |-> sh.method, tail |-> sh.tail, query |-> sh.query, body |-> sh.body,
      headers |-> h, peer |-> pr, ext |-> SocketAddrExtension(pr)] :
        sh \in ProxyShapes, h \in InboundHeaders, pr \in Peers}

\* the header maps of upstream responses
UpstreamHeaders ==
    {[n \in S |-> <<"v">>] :
        S \in {{}, {"content-type"}, HopByHop}
              \cup {{"content-type", n} : n \in HopByHop}}

\* what the upstream call yields
UpstreamOutcomes ==
    {[kind |-> "error"], [kind |-> "timeout"]}
    \cup {[kind |-> "response",
           res |-> [status |-> sh.status, version |-> sh.version, headers |-> h,
                    frames |-> sh.frames]] :
            h \in UpstreamHeaders,
            sh \in {[status |-> 200, version |-> "HTTP/1.1",
                     frames |-> <<[kind |-> "data", bytes |-> <<"a">>],
                                  [kind |-> "data", bytes |-> <<"b">>]>>],
                    [status |-> 429, version |-> "HTTP/1.0",
                     frames |-> <<[kind |-> "data", bytes |-> <<"a">>],
                                  [kind |-> "trailers", bytes |-> <<>>]>>]}}

ProxyRoutePath == <<"/", "api", "/", "*">>

InitProxy ==
    /\ cfg \in {[DefaultConfig EXCEPT !.routing = <<Route(ProxyRoutePath, "none", Some(p))>>] :
                    p \in ProxyConfigs}
    /\ fs = FsMissing
    /\ limiter = NoKeys
    /\ now = 0
    /\ last = [op |-> "none"]

\* a request handed to the handler of the proxy route
ProxyForward ==
    /\ last.op = "none"
    /\ \E req \in ProxyRequests, outcome \in UpstreamOutcomes :
        LET r == proxy_forward(ProxyStateNew(cfg.routing[1].proxy.v), req.tail, req, outcome)
        IN  last' = [op |-> "proxy_forward", req |-> req, outcome |-> outcome,
                     res |-> r.res, sent |-> r.sent]
    /\ UNCHANGED <<cfg, fs, limiter, now>>

NextProxy == ProxyForward \/ Done

SpecProxy == InitProxy /\ [][NextProxy]_vars

\* C5: whatever the inbound headers, the upstream response headers and the
\* configured extra headers are, none of connection, proxy-connection,
\* keep-alive, transfer-encoding, upgrade, te, trailers is in the request
\* proxy_forward sends upstream nor in the response it returns.
C5_NoHopByHop ==
    last.op = "proxy_forward"
        => /\ \A i \in 1..Len(last.sent) : DOMAIN last.sent[i].headers \cap HopByHop = {}
           /\ DOMAIN last.res.headers \cap HopByHop = {}

\* a request carrying te was forwarded by a proxy configured to add
\* Connection and TE, and the upstream answered with every hop-by-hop header
C5_Witness ==
    /\ last.op = "proxy_forward"
    /\ Len(cfg.routing[1].proxy.v.add_headers) = 3
    /\ cfg.routing[1].proxy.v.add_headers[1][1] = "Connection"
    /\ "te" \in DOMAIN last.req.headers
    /\ Len(last.sent) = 1
    /\ last.outcome.kind = "response"
    /\ DOMAIN last.outcome.res.headers = HopByHop
    /\ last.res.status = 200

\* the proxy is configured with the extra header X-Real-IP: {client_ip}
AddsRealIp ==
    \E i \in 1..Len(cfg.routing[1].proxy.v.add_headers) :
        cfg.routing[1].proxy.v.add_headers[i] = <<"X-Real-IP", <<"{client_ip}">> >>

\* C6: the value substituted for {client_ip} is the first address of
\* X-Forwarded-For when the header is present, otherwise the peer address of
\* the connection, otherwise "unknown".
C6_FirstAddressOrPeer ==
    (last.op = "proxy_forward" /\ AddsRealIp /\ Len(last.sent) = 1)
        => last.sent[1].headers["x-real-ip"] =
            (IF "x-forwarded-for" \in DOMAIN last.req.headers
             THEN Trim(Split(last.req.headers["x-forwarded-for"], ",")[1])
             ELSE <<last.req.peer>>)

\* -------------------------------------------------------------- middleware

\* the seconds of a minute: Quota::per_minute
Minute == 60

\* governor::Quota::per_minute(rpm.max(1)): one cell is replenished every
\* Minute / n seconds and n cells may be taken at once
Quota(rpm) ==
    LET n == IF rpm < 1 THEN 1 ELSE rpm
    IN  [t |-> Minute \div n, tau |-> (Minute \div n) * n]

\* the key rate_limit_mw extracts: the first comma-separated piece of
\* x-forwarded-for, trimmed, when it parses as an address; else the address
\* of the SocketAddr extension; else 0.0.0.0
rate_limit_key(req) ==
    LET xff == IF "x-forwarded-for" \in DOMAIN req.headers
                  /\ ToStrOk(req.headers["x-forwarded-for"])
               THEN ParseIp(Trim(Split(req.headers["x-forwarded-for"], ",")[1]))
               ELSE NoAddr
    IN  IF xff.some THEN xff.v ELSE IF req.ext.some THEN req.ext.v ELSE "0.0.0.0"

\* a limiter that keeps one state for all keys
check_key_shared(q, lim, key, t0) ==
    LET tat == IF DOMAIN lim # {} THEN lim["0.0.0.0"] ELSE t0 + q.t
        earliest == IF tat > q.tau THEN tat - q.tau ELSE 0
    IN  IF t0 < earliest
        THEN [ok |-> FALSE, limiter |-> lim]
        ELSE [ok |-> TRUE,
              limiter |-> Insert(lim, "0.0.0.0", (IF tat > t0 THEN tat ELSE t0) + q.t)]

\* RateLimiter::check_key(&ip) at time t0: the generic cell rate algorithm on
\* the theoretical arrival time kept for the key; a denial changes nothing
check_key(q, lim, key, t0) ==
    LET tat == IF key \in DOMAIN lim THEN lim[key] ELSE t0 + q.t
        earliest == IF tat > q.tau THEN tat - q.tau ELSE 0
    IN  IF t0 < earliest
        THEN [ok |-> FALSE, limiter |-> lim]
        ELSE [ok |-> TRUE,
              limiter |-> Insert(lim, key, (IF tat > t0 THEN tat ELSE t0) + q.t)]

\* rate_limit_mw up to the decision: without a limiter nothing is checked
Checked(key, r) ==
    [checked |-> TRUE, key |-> key, denied |-> ~r.ok, limiter |-> r.limiter]

CheckKeyOf(q, lim, key, t0) == Checked(key, check_key(q, lim, key, t0))

rate_limit_mw(c, lim, t0, req) ==
    IF ~c.rate_limit.enabled
    THEN [checked |-> FALSE, key |-> "", denied |-> FALSE, limiter |-> lim]
    ELSE CheckKeyOf(Quota(c.rate_limit.requests_per_min), lim, rate_limit_key(req), t0)

\* a middleware that runs the inner service whatever the limiter said
RunsNext_Always(rl) == TRUE

\* rate_limit_mw reaches next.run(req) unless check_key returned an error
RunsNext(rl) == ~rl.denied

\* (StatusCode::TOO_MANY_REQUESTS, "rate limit").into_response()
TooManyRequests ==
    Response(429, "content-type" :> "text/plain; charset=utf-8", <<"rate limit">>)

\* EXTS of is_asset_path
EXTS ==
    {"css", "js", "mjs", "map", "png", "jpg", "jpeg", "gif", "webp", "svg", "ico", "ttf",
     "otf", "woff", "woff2", "mp4", "webm", "mp3"}

\* a test on the last run of characters, with or without a "." before it
is_asset_path_no_dot(p) == p # <<>> /\ p[Len(p)] \in EXTS

\* is_asset_path(p): p.rsplit('.').next() is one of EXTS
is_asset_path(p) == AfterLastDot(p) \in {<<x>> : x \in EXTS}

RECURSIVE ToDecimal(_)
\* the decimal digits format! writes for an unsigned integer
ToDecimal(n) ==
    IF n < 10
    THEN <<(<<"0", "1", "2", "3", "4", "5", "6", "7", "8", "9">>)[n + 1]>>
    ELSE Append(ToDecimal(n \div 10),
                (<<"0", "1", "2", "3", "4", "5", "6", "7", "8", "9">>)[(n % 10) + 1])

\* a layer that marks successful responses only and keeps a header it finds
cache_control_mw_success_only(c, path, res) ==
    IF /\ c.cache.enabled /\ is_asset_path(path)
       /\ res.status = 200 /\ "cache-control" \notin DOMAIN res.headers
    THEN [res EXCEPT !.headers =
            Insert(@, "cache-control",
                   <<"public, max-age=">> \o ToDecimal(c.cache.max_age) \o <<", immutable">>)]
    ELSE res

\* cache_control_mw, applied to the response of the inner service
cache_control_mw(c, path, res) ==
    IF c.cache.enabled /\ is_asset_path(path)
    THEN [res EXCEPT !.headers =
            Insert(@, "cache-control",
                   <<"public, max-age=">> \o ToDecimal(c.cache.max_age) \o <<", immutable">>)]
    ELSE res

RECURSIVE InsertValid_IfAbsent(_, _)
\* a loop that leaves a header alone when the response already has the name
InsertValid_IfAbsent(headers, kvs) ==
    IF kvs = <<>> THEN headers
    ELSE InsertValid_IfAbsent(
            IF /\ HeaderNameFromStr(kvs[1][1]).some /\ HeaderValueOk(kvs[1][2])
               /\ HeaderNameFromStr(kvs[1][1]).v \notin DOMAIN headers
            THEN Insert(headers, HeaderNameFromStr(kvs[1][1]).v, kvs[1][2])
            ELSE headers,
            Tail(kvs))

RECURSIVE InsertValid(_, _)
\* the loop of with_security_headers: a header is inserted when its name and
\* its value are legal
InsertValid(headers, kvs) ==
    IF kvs = <<>> THEN headers
    ELSE InsertValid(IF HeaderNameFromStr(kvs[1][1]).some /\ HeaderValueOk(kvs[1][2])
                     THEN Insert(headers, HeaderNameFromStr(kvs[1][1]).v, kvs[1][2])
                     ELSE headers,
                     Tail(kvs))

\* with_security_headers, applied to the response of the inner service
with_security_headers(c, res) == [res EXCEPT !.headers = InsertValid(@, c.headers)]

\* ------------------------------------------------------------------ router

\* Proxy::default()
NoProxy == [url |-> <<>>, timeout |-> 0, add_headers |-> <<>>]

\* a mounted route: `exact` matches the path itself, `tail` matches the
\* prefix followed by a non-empty tail
Mounted(kind, prefix, handler, proxy) ==
    [kind |-> kind, prefix |-> prefix, handler |-> handler, proxy |-> proxy]

\* a mount that registers only the route with a tail
mount_static_route_tail_only(path) ==
    <<Mounted("tail", TrimEndMatches(path, "/") \o <<"/">>, "static", NoProxy)>>

\* mount_static_route(router, state, path)
mount_static_route(path) ==
    IF path = <<"/">>
    THEN <<Mounted("exact", <<"/">>, "static", NoProxy),
           Mounted("tail", <<"/">>, "static", NoProxy)>>
    ELSE <<Mounted("tail", TrimEndMatches(path, "/") \o <<"/">>, "static", NoProxy)>>

\* make_proxy_route(base, p)
make_proxy_route(base, p) == Mounted("tail", TrimEndMatches(base, "*"), "proxy", p)

\* a loop that looks at the proxy target of a route first
MountRoutes_ProxyFirst(c) ==
    Flatten([i \in 1..Len(c.routing) |->
                IF c.routing[i].proxy.some
                THEN <<make_proxy_route(c.routing[i].path, c.routing[i].proxy.v)>>
                ELSE IF c.routing[i].serve = "static"
                THEN mount_static_route(c.routing[i].path)
                ELSE <<>>])

\* a loop that mounts a route without serve: static or proxy as static
MountRoutes_EveryRoute(c) ==
    Flatten([i \in 1..Len(c.routing) |->
                IF c.routing[i].serve = "static" \/ ~c.routing[i].proxy.some
                THEN mount_static_route(c.routing[i].path)
                ELSE <<make_proxy_route(c.routing[i].path, c.routing[i].proxy.v)>>])

\* the loop of build_router over the declared routes
MountRoutes(c) ==
    Flatten([i \in 1..Len(c.routing) |->
                IF c.routing[i].serve = "static"
                THEN mount_static_route(c.routing[i].path)
                ELSE IF c.routing[i].proxy.some
                THEN <<make_proxy_route(c.routing[i].path, c.routing[i].proxy.v)>>
                ELSE <<>>])

\* a router without the default route
WithDefaultRoute_Never(mounted) == mounted

\* the default of build_router: a static route at "/" when nothing is mounted
WithDefaultRoute(mounted) ==
    IF mounted = <<>> THEN mount_static_route(<<"/">>) ELSE mounted

\* the file of the SPA fallback: the resolved fallback path, or
\* root/index.html when the resolver rejects it
FallbackFile(c, resolved) ==
    IF ~c.spa.enabled THEN NoPath
    ELSE IF resolved.ok THEN [ok |-> TRUE, path |-> resolved.path]
    ELSE [ok |-> TRUE, path |-> Append(c.root, <<"index", ".", "html">>)]

\* build_router(state): the mounted routes and the fallback file
build_router(c, f) ==
    [routes |-> WithDefaultRoute(MountRoutes(c)),
     fallback |->
        FallbackFile(c, resolve_path_within_root(f, c.root,
                                                 TrimStartMatches(c.spa.fallback, "/")))]

\* percent-decoding of the tail by the Path extractor
PercentDecode(s) ==
    [i \in 1..Len(s) |-> IF s[i] = "%2e" THEN "." ELSE IF s[i] = "%2f" THEN "/"
                         ELSE IF s[i] = "%23" THEN "#" ELSE s[i]]

\* a dispatch that hands the handler the whole path below "/"
Dispatch_WholePath(router, path) ==
    LET hits == {i \in 1..Len(router.routes) :
                    \/ router.routes[i].kind = "exact" /\ router.routes[i].prefix = path
                    \/ /\ router.routes[i].kind = "tail"
                       /\ StartsWith(path, router.routes[i].prefix)
                       /\ Len(path) > Len(router.routes[i].prefix)}
        best == CHOOSE i \in hits :
                    \A j \in hits : Len(router.routes[j].prefix) <= Len(router.routes[i].prefix)
    IN  IF hits = {}
        THEN [handler |-> IF router.fallback.ok THEN "fallback" ELSE "not_found",
              tail |-> <<>>, proxy |-> NoProxy]
        ELSE [handler |-> router.routes[best].handler,
              tail |-> PercentDecode(SubSeq(path, 2, Len(path))),
              proxy |-> router.routes[best].proxy]

\* the route a path is dispatched to: the exact route, else the tail route
\* with the longest prefix; no route leaves the fallback, if any
Dispatch(router, path) ==
    LET hits == {i \in 1..Len(router.routes) :
                    \/ router.routes[i].kind = "exact" /\ router.routes[i].prefix = path
                    \/ /\ router.routes[i].kind = "tail"
                       /\ StartsWith(path, router.routes[i].prefix)
                       /\ Len(path) > Len(router.routes[i].prefix)}
        best == CHOOSE i \in hits :
                    \A j \in hits :
                        \/ router.routes[i].kind = "exact"
                        \/ /\ router.routes[j].kind = "tail"
                           /\ \/ Len(router.routes[j].prefix) < Len(router.routes[i].prefix)
                              \/ Len(router.routes[j].prefix) = Len(router.routes[i].prefix)
                                 /\ i <= j
    IN  IF hits = {}
        THEN [handler |-> IF router.fallback.ok THEN "fallback" ELSE "not_found",
              tail |-> <<>>, proxy |-> NoProxy]
        ELSE [handler |-> router.routes[best].handler,
              tail |-> IF router.routes[best].kind = "exact" THEN <<>>
                       ELSE PercentDecode(SubSeq(path, Len(router.routes[best].prefix) + 1,
                                                 Len(path))),
              proxy |-> router.routes[best].proxy]

\* the SPA fallback service: the file at the fallback path
ServeFallback(f, path, method) ==
    IF method \notin {"GET", "HEAD"} THEN StatusResponse(405)
    ELSE IF Metadata(f, path).kind # "file" \/ ~Metadata(f, path).readable
    THEN StatusResponse(404)
    ELSE Response(200,
                  ("content-type" :> MimeOf(path))
                  @@ ("content-length" :> Len(Metadata(f, path).bytes)),
                  IF method = "HEAD" THEN <<>> ELSE Metadata(f, path).bytes)

\* what a request leaves behind when serve_static handled it
StaticHandled(r, tail) ==
    [handler |-> "static", tail |-> tail, res |-> r.res, lookups |-> r.lookups,
     sent |-> <<>>]

\* what a request leaves behind when proxy_forward handled it
ProxyHandled(r, tail) ==
    [handler |-> "proxy", tail |-> tail, res |-> r.res, lookups |-> <<>>,
     sent |-> r.sent]

\* the handler of the route d runs
RunHandler(c, f, router, req, env, d) ==
    IF d.handler = "static"
    THEN StaticHandled(serve_static(c, f, f, d.tail, req.method, env.order), d.tail)
    ELSE IF d.handler = "proxy"
    THEN ProxyHandled(proxy_forward(ProxyStateNew(d.proxy), d.tail, req, env.upstream),
                      d.tail)
    ELSE IF d.handler = "fallback"
    THEN [handler |-> "fallback", tail |-> <<>>,
          res |-> ServeFallback(f, router.fallback.path, req.method),
          lookups |-> <<Lookup("metadata", router.fallback.path)>>, sent |-> <<>>]
    ELSE [handler |-> "not_found", tail |-> <<>>, res |-> StatusResponse(404),
          lookups |-> <<>>, sent |-> <<>>]

\* a router that hands a request for a missing file to the fallback
RouteHandler_SpaOnMissing(c, f, router, req, env) ==
    RunHandler(c, f, router, req, env,
               IF /\ router.fallback.ok
                  /\ Dispatch(router, req.path).handler = "static"
                  /\ serve_static(c, f, f, Dispatch(router, req.path).tail, req.method,
                                  env.order).res.status = 404
               THEN [handler |-> "fallback", tail |-> <<>>, proxy |-> NoProxy]
               ELSE Dispatch(router, req.path))

\* the router called with a request: the handler of the matched route runs
RouteHandler(c, f, router, req, env) ==
    RunHandler(c, f, router, req, env, Dispatch(router, req.path))

\* the layers of main around the router, outermost last: rate_limit_mw,
\* cache_control_mw, with_security_headers (the CORS and compression layers
\* are not built by these configurations)
SecurityLayer(c, rl, h, cached) ==
    [rl |-> rl, handler |-> h.handler, tail |-> h.tail, lookups |-> h.lookups,
     sent |-> h.sent, handler_res |-> h.res, cache_res |-> cached,
     res |-> with_security_headers(c, cached)]

CacheLayer(c, req, rl, h) ==
    SecurityLayer(c, rl, h, cache_control_mw(c, req.path, h.res))

RateLimitLayer(c, f, req, env, rl) ==
    CacheLayer(c, req, rl,
               IF RunsNext(rl)
               THEN RouteHandler(c, f, build_router(c, f), req, env)
               ELSE [handler |-> "none", tail |-> <<>>, res |-> TooManyRequests,
                     lookups |-> <<>>, sent |-> <<>>])

Pipeline(c, f, lim, t0, req, env) ==
    RateLimitLayer(c, f, req, env, rate_limit_mw(c, lim, t0, req))

\* --------------------------------------------- specification: pipeline

MaxTicks == 3

\* the routes of a site with an API behind it
SiteRoutes ==
    <<Route(<<"/">>, "static", [some |-> FALSE, v |-> NoProxy]),
      Route(ProxyRoutePath, "none",
            Some([url |-> <<"http://up">>, timeout |-> 0,
                  add_headers |-> << <<"X-Real-IP", <<"{client_ip}">> >> >>]))>>

\* the configurations the server is started with
PipelineConfigs ==
    {[DefaultConfig EXCEPT !.rate_limit = [enabled |-> TRUE, requests_per_min |-> 0]],
     [DefaultConfig EXCEPT !.routing = SiteRoutes,
                           !.cache = [enabled |-> TRUE, max_age |-> 3600]],
     [DefaultConfig EXCEPT !.routing = SiteRoutes,
                           !.cache = [enabled |-> TRUE, max_age |-> 90],
                           !.rate_limit = [enabled |-> TRUE, requests_per_min |-> 1],
                           !.headers = << <<"X-Frame-Options", <<"DENY">> >>,
                                          <<"bad name", <<"v">> >>,
                                          <<"X-Tag", <<"a", "LF", "b">> >>,
                                          <<"Cache-Control", <<"no-store">> >> >>],
     [DefaultConfig EXCEPT !.headers = << <<"X-Frame-Options", <<"DENY">> >>,
                                          <<"x-frame-options", <<"SAMEORIGIN">> >> >>],
     [DefaultConfig EXCEPT !.headers = << <<"x-frame-options", <<"SAMEORIGIN">> >>,
                                          <<"X-Frame-Options", <<"DENY">> >> >>],
     [DefaultConfig EXCEPT !.routing = <<SiteRoutes[2]>>,
                           !.rate_limit = [enabled |-> TRUE, requests_per_min |-> 2]]}

\* method, path, query and body of the requests clients send
Shapes ==
    {[method |-> "GET", path |-> <<"/">>, query |-> Nothing, body |-> <<>>],
     [method |-> "GET", path |-> <<"/", "a", ".", "css">>, query |-> Nothing, body |-> <<>>],
     [method |-> "POST", path |-> <<"/", "a", ".", "css">>, query |-> Nothing, body |-> <<"b">>],
     [method |-> "GET", path |-> <<"/", "index", ".", "html">>, query |-> Nothing, body |-> <<>>],
     [method |-> "GET", path |-> <<"/", "css">>, query |-> Nothing, body |-> <<>>],
     [method |-> "GET", path |-> <<"/", "a", ".", "css", "/", "a">>, query |-> Nothing,
      body |-> <<>>],
     [method |-> "GET", path |-> <<"/", "a", ".", "CSS">>, query |-> Nothing, body |-> <<>>],
     [method |-> "GET", path |-> <<"/", "%2e", "%2e", "/", "etc", "/", "a">>,
      query |-> Nothing, body |-> <<>>],
     [method |-> "GET", path |-> <<"/", "api", "/", "x">>, query |-> Nothing, body |-> <<>>],
     [method |-> "POST", path |-> <<"/", "api", "/", "a", ".", "js">>,
      query |-> Some(<<"q">>), body |-> <<"b">>]}

\* who a request comes from: with or without X-Forwarded-For, on a
\* connection from a peer
Identities ==
    {[headers |-> h, peer |-> pr, ext |-> SocketAddrExtension(pr)] :
        h \in {<<>>} \cup {("x-forwarded-for" :> x) : x \in XffValues},
        pr \in Peers}

\* the requests: every shape without X-Forwarded-For, and the request for
\* /api/x from every identity
Requests ==
    {[method |-> sh.method, path |-> sh.path, query |-> sh.query, body |-> sh.body,
      headers |-> id.headers, peer |-> id.peer, ext |-> id.ext] :
        sh \in Shapes, id \in {i \in Identities : i.headers = <<>>}}
    \cup
    {[method |-> "GET", path |-> pa, query |-> Nothing, body |-> <<>>,
      headers |-> id.headers, peer |-> id.peer, ext |-> id.ext] :
        pa \in {<<"/", "api", "/", "x">>}, id \in Identities}

\* what the handlers of a request meet outside the server: the answer of the
\* upstream and the order read_dir yields
EnvsOf(c, f, d) ==
        {[upstream |-> u, order |-> o] :
            u \in IF d.handler # "proxy" THEN {[kind |-> "error"]}
                  ELSE {[kind |-> "timeout"]}
                       \cup {[kind |-> "response",
                              res |-> [status |-> st, version |-> "HTTP/1.1",
                                       headers |-> ("cache-control" :> <<"v">>),
                                       frames |-> <<[kind |-> "data", bytes |-> <<"a">>]>>]] :
                                st \in {200, 429}},
            o \in IF d.handler # "static" THEN {<<>>} ELSE ReadDirOrders(c, f, d.tail)}

Envs(c, f, req) == EnvsOf(c, f, Dispatch(build_router(c, f), req.path))

Init ==
    /\ cfg \in PipelineConfigs
    /\ fs = FsSite
    /\ limiter = NoKeys
    /\ now = 0
    /\ last = [op |-> "none", log |-> <<>>]

\* the record of a handled request
Handled(req, env, log, t0, r) ==
    [op |-> "request", req |-> req, env |-> env, rl |-> r.rl,
     handler |-> r.handler, tail |-> r.tail, lookups |-> r.lookups, sent |-> r.sent,
     handler_res |-> r.handler_res, cache_res |-> r.cache_res,
     res |-> r.res, before |-> log,
     log |-> IF r.rl.checked /\ ~r.rl.denied /\ r.rl.key \notin DOMAIN log
             THEN Insert(log, r.rl.key, t0) ELSE log]

\* a request passes through the layers and the router; `log` keeps, for each
\* key, when the first request of that key was let through by the limiter
HandleRequest ==
    /\ last.op = "none"
    /\ \E req \in Requests :
        \E env \in Envs(cfg, fs, req) :
            /\ last' = Handled(req, env, last.log, now,
                                Pipeline(cfg, fs, limiter, now, req, env))
            /\ limiter' = last'.rl.limiter
    /\ UNCHANGED <<cfg, fs, now>>

\* the response is written to the client
Respond ==
    /\ last.op = "request"
    /\ last' = [op |-> "none", log |-> last.log]
    /\ UNCHANGED <<cfg, fs, limiter, now>>

\* half a minute passes between requests
Tick ==
    /\ last.op = "none"
    /\ now < MaxTicks * (Minute \div 2)
    /\ now' = now + (Minute \div 2)
    /\ UNCHANGED <<cfg, fs, limiter, last>>

Next == HandleRequest \/ Respond \/ Tick

Spec == Init /\ [][Next]_vars

\* the characters of s that are not spaces
Unspaced(s) == SelectSeq(s, LAMBDA ch : ch # " ")

\* the text of s before its first comma
BeforeComma(s) ==
    IF \E i \in 1..Len(s) : s[i] = ","
    THEN SubSeq(s, 1, (CHOOSE i \in 1..Len(s) :
                            s[i] = "," /\ \A j \in 1..(i - 1) : s[j] # ",") - 1)
    ELSE s

\* the request carries an X-Forwarded-For whose first address is an IP
FirstForwardedIsIp(req) ==
    /\ "x-forwarded-for" \in DOMAIN req.headers
    /\ \A i \in 1..Len(req.headers["x-forwarded-for"]) :
            req.headers["x-forwarded-for"][i] # "0xFF"
    /\ \E ip \in IpLiterals :
            Unspaced(BeforeComma(req.headers["x-forwarded-for"])) = <<ip>>

\* C7: with rate limiting enabled every request is checked under a key: the
\* first comma-separated, trimmed address of X-Forwarded-For when it parses
\* as an IP, else the peer address of the connection.
C7_RateLimitKey ==
    (last.op = "request" /\ cfg.rate_limit.enabled)
        => /\ last.rl.checked
           /\ FirstForwardedIsIp(last.req)
                => <<last.rl.key>> = Unspaced(BeforeComma(last.req.headers["x-forwarded-for"]))
           /\ ~FirstForwardedIsIp(last.req) => last.rl.key = last.req.peer

\* C8: a request the limiter denies is answered 429 and no route handler
\* runs for it: no file is looked up and no upstream request is sent; with
\* rate limiting disabled nothing is checked and a 429 can only be the
\* answer of the upstream of a proxied request.
C8_DeniedNeverHandled ==
    last.op = "request"
        => /\ (cfg.rate_limit.enabled /\ last.rl.denied)
                => /\ last.res.status = 429
                   /\ last.handler = "none"
                   /\ last.lookups = <<>>
                   /\ last.sent = <<>>
           /\ ~cfg.rate_limit.enabled
                => /\ ~last.rl.checked /\ ~last.rl.denied
                   /\ last.res.status = 429
                        => /\ last.handler = "proxy"
                           /\ last.env.upstream.kind = "response"
                           /\ last.env.upstream.res.status = 429

\* a request for a proxied path was denied by the limiter
C8_Witness ==
    /\ last.op = "request"
    /\ cfg.rate_limit.enabled
    /\ last.rl.denied
    /\ last.req.path = <<"/", "api", "/", "x">>
    /\ last.res.status = 429

\* C9: at 1 request per minute, the first request of a key is passed to the
\* router, whatever other keys have done, and every later request of that
\* key less than a minute after the first is answered 429.
C9_OnePerMinute ==
    (/\ last.op = "request"
     /\ cfg.rate_limit.enabled
     /\ cfg.rate_limit.requests_per_min = 1)
        => /\ last.rl.key \notin DOMAIN last.before
                => (~last.rl.denied /\ last.handler # "none")
           /\ (last.rl.key \in DOMAIN last.before
               /\ now - last.before[last.rl.key] < Minute)
                => (last.res.status = 429 /\ last.handler = "none")

\* two keys were let through at the same time and, half a minute later, a
\* second request of one of them was answered 429
C9_Witness ==
    /\ last.op = "request"
    /\ cfg.rate_limit.enabled
    /\ cfg.rate_limit.requests_per_min = 1
    /\ DOMAIN last.before = {"203.0.113.5", "0.0.0.0"}
    /\ last.before["203.0.113.5"] = 0
    /\ last.before["0.0.0.0"] = 0
    /\ now = Minute \div 2
    /\ last.rl.key = "0.0.0.0"
    /\ last.res.status = 429

\* the text after the last "." of the path is a recognised extension
HasAssetExtension(path) ==
    \E i \in 1..Len(path) :
        /\ path[i] = "."
        /\ \A j \in (i + 1)..Len(path) : path[j] # "."
        /\ \E x \in EXTS : SubSeq(path, i + 1, Len(path)) = <<x>>

\* C10: the response leaving cache_control_mw has Cache-Control set to
\* "public, max-age=<seconds>, immutable" when caching is enabled and the
\* text after the last "." of the request path is a recognised extension,
\* and is otherwise the response of the inner service unchanged.
C10_CacheControlIff ==
    last.op = "request"
        => IF cfg.cache.enabled /\ HasAssetExtension(last.req.path)
           THEN /\ "cache-control" \in DOMAIN last.cache_res.headers
                /\ last.cache_res.headers["cache-control"] =
                    <<"public, max-age=">>
                    \o (IF cfg.cache.max_age = 3600 THEN <<"3", "6", "0", "0">>
                        ELSE <<"9", "0">>)
                    \o <<", immutable">>
                /\ \A n \in DOMAIN last.handler_res.headers \ {"cache-control"} :
                        /\ n \in DOMAIN last.cache_res.headers
                        /\ last.cache_res.headers[n] = last.handler_res.headers[n]
                /\ last.cache_res.status = last.handler_res.status
           ELSE last.cache_res = last.handler_res

\* /a.css was served from disk with max-age 3600 and left the pipeline with
\* the header
C10_Witness ==
    /\ last.op = "request"
    /\ cfg.cache.enabled
    /\ cfg.cache.max_age = 3600
    /\ last.req.path = <<"/", "a", ".", "css">>
    /\ last.req.method = "GET"
    /\ last.handler = "static"
    /\ last.res.status = 200
    /\ last.res.headers["cache-control"]
        = <<"public, max-age=", "3", "6", "0", "0", ", immutable">>

\* C27: with caching enabled, the response to a request for an asset path
\* leaves cache_control_mw with the Cache-Control value made of the
\* configured max-age, whatever its status is and whether it comes from the
\* static responder, the proxy or the rate limiter, and whatever
\* Cache-Control it came with.
C27_CacheControlWhateverResponse ==
    (/\ last.op = "request"
     /\ cfg.cache.enabled
     /\ HasAssetExtension(last.req.path))
        => /\ last.cache_res.status = last.handler_res.status
           /\ last.cache_res.body = last.handler_res.body
           /\ "cache-control" \in DOMAIN last.cache_res.headers
           /\ \E age \in {<<"3", "6", "0", "0">>, <<"9", "0">>} :
                /\ (age = <<"9", "0">>) <=> (cfg.cache.max_age = 90)
                /\ last.cache_res.headers["cache-control"]
                    = <<"public, max-age=">> \o age \o <<", immutable">>

\* the upstream answered a proxied request for an asset path with status 429
\* and a Cache-Control of its own, which the layer replaced
C27_Witness ==
    /\ last.op = "request"
    /\ cfg.cache.enabled
    /\ last.req.path = <<"/", "api", "/", "a", ".", "js">>
    /\ last.handler = "proxy"
    /\ last.handler_res.status = 429
    /\ "cache-control" \in DOMAIN last.handler_res.headers
    /\ last.handler_res.headers["cache-control"] = <<"v">>
    /\ last.cache_res.status = 429
    /\ last.cache_res.headers["cache-control"] # <<"v">>

\* the i-th configured security header has a legal name and a legal value
ValidSecurityHeader(i) ==
    HeaderNameFromStr(cfg.headers[i][1]).some /\ HeaderValueOk(cfg.headers[i][2])

\* C11, as claimed: every response leaving the pipeline carries each
\* configured security header that has a valid name and value, with exactly
\* the configured value.
C11_EachConfiguredValue ==
    last.op = "request"
        => \A i \in 1..Len(cfg.headers) :
            ValidSecurityHeader(i)
                => /\ HeaderNameFromStr(cfg.headers[i][1]).v \in DOMAIN last.res.headers
                   /\ last.res.headers[HeaderNameFromStr(cfg.headers[i][1]).v]
                        = cfg.headers[i][2]

\* C11, amended: every response leaving the pipeline, whatever produced it,
\* carries under the name of each valid configured security header the value
\* of a valid configured header of that name, names compared without regard
\* to letter case: the configured value itself when no other configured
\* header has the name, whatever was set under that name earlier.
C11_SecurityHeadersSet ==
    last.op = "request"
        => \A i \in 1..Len(cfg.headers) :
            ValidSecurityHeader(i)
                => /\ HeaderNameFromStr(cfg.headers[i][1]).v \in DOMAIN last.res.headers
                   /\ \E j \in 1..Len(cfg.headers) :
                        /\ ValidSecurityHeader(j)
                        /\ HeaderNameFromStr(cfg.headers[j][1]).v
                            = HeaderNameFromStr(cfg.headers[i][1]).v
                        /\ last.res.headers[HeaderNameFromStr(cfg.headers[i][1]).v]
                            = cfg.headers[j][2]

\* a request for an asset path was denied by the limiter; the 429 left the
\* cache-control stage with its Cache-Control and the pipeline with the
\* configured one
C11_Witness ==
    /\ last.op = "request"
    /\ last.rl.denied
    /\ last.res.status = 429
    /\ last.req.path = <<"/", "a", ".", "css">>
    /\ "cache-control" \in DOMAIN last.cache_res.headers
    /\ {"cache-control", "x-frame-options"} \subseteq DOMAIN last.res.headers
    /\ last.cache_res.headers["cache-control"]
        = <<"public, max-age=", "9", "0", ", immutable">>
    /\ last.res.headers["cache-control"] = <<"no-store">>
    /\ last.res.headers["x-frame-options"] = <<"DENY">>
    /\ "x-tag" \notin DOMAIN last.res.headers

\* the path a tail names below the root, "." and empty segments left out
NamedPath(c, tail) ==
    c.root \o SelectSeq(PlainNames(tail), LAMBDA x : x # <<".">>)

\* the first segment of the tail, leading slashes aside, is "."
LeadingDot(tail) ==
    Split(TrimStartMatches(tail, "/"), "/")[1] = <<".">>

\* C18 as stated: for GET and HEAD on a tail free of "..", a directory
\* with a regular index file is answered 200 with that file, a directory
\* without one 200 with a listing when auto_index is set and 404 when not,
\* and a path that is neither file nor directory 404.
C18_StatusOnlyByPath ==
    (/\ last.op = "serve_static"
     /\ last.method \in {"GET", "HEAD"}
     /\ ~HasParentSegment(last.tail))
        => IF Metadata(last.fs0, NamedPath(cfg, last.tail)).kind = "dir"
           THEN IF Metadata(last.fs0, Append(NamedPath(cfg, last.tail), cfg.index)).kind = "file"
                THEN /\ last.res.status = 200
                     /\ last.method = "GET"
                            => last.res.body
                                = Metadata(fs, Append(NamedPath(cfg, last.tail), cfg.index)).bytes
                ELSE IF cfg.auto_index
                THEN /\ last.res.status = 200
                     /\ last.res.headers["content-type"] = "text/html; charset=utf-8"
                     /\ last.method = "GET"
                            => last.res.headers["content-length"] = Len(last.res.body)
                ELSE last.res.status = 404
           ELSE Metadata(last.fs0, NamedPath(cfg, last.tail)).kind # "file"
                    => last.res.status = 404

\* C18, amended: the same for tails whose first segment is not "." (those
\* are answered 403), with 500 when the index file or the directory to list
\* cannot be read.
C18_StatusByPath ==
    (/\ last.op = "serve_static"
     /\ last.method \in {"GET", "HEAD"}
     /\ ~HasParentSegment(last.tail))
        => IF LeadingDot(last.tail)
           THEN last.res.status = 403
           ELSE IF Metadata(last.fs0, NamedPath(cfg, last.tail)).kind = "dir"
           THEN IF Metadata(last.fs0, Append(NamedPath(cfg, last.tail), cfg.index)).kind = "file"
                THEN IF Metadata(fs, Append(NamedPath(cfg, last.tail), cfg.index)).readable
                     THEN /\ last.res.status = 200
                          /\ last.method = "GET"
                                => last.res.body
                                    = Metadata(fs, Append(NamedPath(cfg, last.tail),
                                                          cfg.index)).bytes
                     ELSE last.res.status = 500
                ELSE IF cfg.auto_index
                THEN IF Metadata(last.fs0, NamedPath(cfg, last.tail)).readable
                     THEN /\ last.res.status = 200
                          /\ last.res.headers["content-type"] = "text/html; charset=utf-8"
                          /\ last.method = "GET"
                                => last.res.headers["content-length"] = Len(last.res.body)
                     ELSE last.res.status = 500
                ELSE last.res.status = 404
           ELSE Metadata(last.fs0, NamedPath(cfg, last.tail)).kind # "file"
                    => last.res.status = 404

\* GET of the directory css, whose index.html is a directory, was answered
\* with a listing
C18_Witness ==
    /\ last.op = "serve_static"
    /\ last.method = "GET"
    /\ last.tail = <<"css">>
    /\ cfg.auto_index
    /\ Metadata(last.fs0, NamedPath(cfg, last.tail)).kind = "dir"
    /\ last.res.status = 200
    /\ last.res.headers["content-type"] = "text/html; charset=utf-8"
    /\ Len(last.res.body) > 0

\* the value configured extra header i has once {client_ip} is replaced
ExtraValue(i) ==
    ReplaceClientIp(cfg.routing[1].proxy.v.add_headers[i][2], ClientIpOrUnknown(last.req))

\* the configured extra headers that set header n: legal name n, legal value
SettersOf(n) ==
    {i \in 1..Len(cfg.routing[1].proxy.v.add_headers) :
        /\ HeaderNameFromStr(cfg.routing[1].proxy.v.add_headers[i][1]).some
        /\ HeaderNameFromStr(cfg.routing[1].proxy.v.add_headers[i][1]).v = n
        /\ HeaderValueOk(ExtraValue(i))}

\* method and body are the inbound ones, no hop-by-hop header is sent, and
\* a request whose target is a valid URI is sent whatever the extra headers
ForwardedFrame ==
    /\ UriOk(TrimEndMatches(cfg.routing[1].proxy.v.url, "/") \o <<"/">> \o last.req.tail)
            => Len(last.sent) = 1
    /\ \A k \in 1..Len(last.sent) :
        /\ last.sent[k].method = last.req.method
        /\ last.sent[k].body = last.req.body
        /\ DOMAIN last.sent[k].headers \cap HopByHop = {}
        /\ \A n \in (DOMAIN last.req.headers \cup DOMAIN last.sent[k].headers) \ HopByHop :
                SettersOf(n) = {}
                    => /\ n \in DOMAIN last.req.headers
                       /\ n \in DOMAIN last.sent[k].headers
                       /\ last.sent[k].headers[n] = last.req.headers[n]

\* C22 as stated: besides the frame above, every configured extra header
\* whose value is legal and whose name is not hop-by-hop is on the upstream
\* request with its value.
C22_EachExtraHeaderSet ==
    last.op = "proxy_forward"
        => /\ ForwardedFrame
           /\ \A k \in 1..Len(last.sent) :
                \A i \in 1..Len(cfg.routing[1].proxy.v.add_headers) :
                    (/\ HeaderValueOk(ExtraValue(i))
                     /\ HeaderNameFromStr(cfg.routing[1].proxy.v.add_headers[i][1]).v
                            \notin HopByHop)
                        => /\ HeaderNameFromStr(cfg.routing[1].proxy.v.add_headers[i][1]).some
                           /\ HeaderNameFromStr(cfg.routing[1].proxy.v.add_headers[i][1]).v
                                \in DOMAIN last.sent[k].headers
                           /\ last.sent[k].headers[
                                HeaderNameFromStr(cfg.routing[1].proxy.v.add_headers[i][1]).v]
                                = ExtraValue(i)

\* C22, amended: besides the frame above, every header name that configured
\* extra headers with a legal name and a legal value set carries the value
\* of the last of them, whatever the inbound request had under that name.
C22_UpstreamRequest ==
    last.op = "proxy_forward"
        => /\ ForwardedFrame
           /\ \A k \in 1..Len(last.sent) :
                \A i \in 1..Len(cfg.routing[1].proxy.v.add_headers) :
                    LET n == HeaderNameFromStr(cfg.routing[1].proxy.v.add_headers[i][1])
                    IN  (n.some /\ n.v \notin HopByHop /\ SettersOf(n.v) # {})
                            => /\ n.v \in DOMAIN last.sent[k].headers
                               /\ last.sent[k].headers[n.v]
                                    = ExtraValue(CHOOSE j \in SettersOf(n.v) :
                                                    \A h \in SettersOf(n.v) : h <= j)

\* a POST with a body and an inbound X-Real-IP went upstream with the
\* configured X-Real-IP in its place, the header with an illegal value left out
C22_Witness ==
    /\ last.op = "proxy_forward"
    /\ last.req.method = "POST"
    /\ DOMAIN last.req.headers = {"x-real-ip", "content-type"}
    /\ Len(cfg.routing[1].proxy.v.add_headers) = 3
    /\ cfg.routing[1].proxy.v.add_headers[2][1] = "X-Tag"
    /\ Len(last.sent) = 1
    /\ last.sent[1].body = <<"b">>
    /\ DOMAIN last.sent[1].headers = {"x-real-ip", "content-type", "x-forwarded-for"}
    /\ last.sent[1].headers["x-forwarded-for"] = <<"unknown">>

\* C16: the upstream request goes to the configured url without its trailing
\* slashes, "/", the tail, and "?" with the query exactly when the inbound
\* request has one; when that string is no valid URI the response is 502
\* and nothing is sent.
C16_UpstreamUri ==
    last.op = "proxy_forward"
        => IF UriOk(TrimEndMatches(cfg.routing[1].proxy.v.url, "/") \o <<"/">> \o last.req.tail
                    \o (IF last.req.query.some THEN <<"?">> \o last.req.query.v ELSE <<>>))
           THEN /\ Len(last.sent) = 1
                /\ last.sent[1].uri
                    = TrimEndMatches(cfg.routing[1].proxy.v.url, "/") \o <<"/">> \o last.req.tail
                      \o (IF last.req.query.some THEN <<"?">> \o last.req.query.v ELSE <<>>)
           ELSE /\ last.res.status = 502
                /\ last.sent = <<>>

\* ------------------------------------- specification: forwarding in time

\* the requests and upstream responses of the timed specification
ForwardRequests == {r \in ProxyRequests : DOMAIN r.headers = {}}

ForwardResponses ==
    {o \in UpstreamOutcomes : o.kind = "response" /\ DOMAIN o.res.headers = {}}

\* proxy_forward up to the call of the client: 502 for an invalid URI, else
\* the request is handed to the client and the timer of the route starts
Forwarding(req, pstate, r, t0) ==
    IF r.sent = <<>>
    THEN [op |-> "responded", req |-> req, sent |-> <<>>, started |-> t0,
          timeout |-> pstate.timeout, cause |-> "uri", res |-> r.res]
    ELSE [op |-> "awaiting", req |-> req, sent |-> r.sent, started |-> t0,
          timeout |-> pstate.timeout, cause |-> "none", res |-> StatusResponse(0)]

\* the match on the result of tokio::time::timeout
Forwarded(l, cause, r) ==
    [l EXCEPT !.op = "responded", !.cause = cause, !.res = r.res]

ForwardStart ==
    /\ last.op = "none"
    /\ \E req \in ForwardRequests :
        last' = Forwarding(req, ProxyStateNew(cfg.routing[1].proxy.v),
                           proxy_forward(ProxyStateNew(cfg.routing[1].proxy.v), req.tail,
                                         req, [kind |-> "timeout"]),
                           now)
    /\ UNCHANGED <<cfg, fs, limiter, now>>

\* the upstream answers before the timer expires
UpstreamAnswers ==
    /\ last.op = "awaiting"
    /\ now - last.started < last.timeout
    /\ \E o \in ForwardResponses :
        last' = Forwarded(last, "response",
                          proxy_forward(ProxyStateNew(cfg.routing[1].proxy.v),
                                        last.req.tail, last.req, o))
    /\ UNCHANGED <<cfg, fs, limiter, now>>

\* the client returns an error before the timer expires
TransportFails ==
    /\ last.op = "awaiting"
    /\ now - last.started < last.timeout
    /\ last' = Forwarded(last, "error",
                         proxy_forward(ProxyStateNew(cfg.routing[1].proxy.v),
                                       last.req.tail, last.req, [kind |-> "error"]))
    /\ UNCHANGED <<cfg, fs, limiter, now>>

\* a second passes while the request is awaited
TimePasses ==
    /\ last.op = "awaiting"
    /\ now - last.started < last.timeout
    /\ now' = now + 1
    /\ UNCHANGED <<cfg, fs, limiter, last>>

\* tokio::time::timeout yields Err(Elapsed)
TimeoutExpires ==
    /\ last.op = "awaiting"
    /\ now - last.started >= last.timeout
    /\ last' = Forwarded(last, "timeout",
                         proxy_forward(ProxyStateNew(cfg.routing[1].proxy.v),
                                       last.req.tail, last.req, [kind |-> "timeout"]))
    /\ UNCHANGED <<cfg, fs, limiter, now>>

NextForward ==
    ForwardStart \/ UpstreamAnswers \/ TransportFails \/ TimePasses \/ TimeoutExpires

\* time passes, and the timer of the runtime fires when it is due; the
\* upstream is under no obligation
SpecForward ==
    /\ InitProxy
    /\ [][NextForward]_vars
    /\ WF_vars(TimePasses)
    /\ WF_vars(TimeoutExpires)

\* C17: a proxied request is handed to the client at most once; a request
\* that is awaited is eventually answered; it is awaited no longer than the
\* configured timeout, 5 seconds when that is zero, and the answer after the
\* timeout or a transport failure is 502.
C17_OneAttemptThen502 ==
    /\ [](last.op \in {"awaiting", "responded"}
            => /\ Len(last.sent) <= 1
               /\ now - last.started
                    <= (IF cfg.routing[1].proxy.v.timeout = 0 THEN 5
                        ELSE cfg.routing[1].proxy.v.timeout))
    /\ [](last.op = "responded" /\ last.cause \in {"timeout", "error"}
            => /\ last.res.status = 502
               /\ Len(last.sent) = 1)
    /\ [](last.op = "responded" /\ last.cause = "timeout"
            => now - last.started
                = (IF cfg.routing[1].proxy.v.timeout = 0 THEN 5
                   ELSE cfg.routing[1].proxy.v.timeout))
    /\ (last.op = "awaiting" ~> (last.op = "responded"))

\* a request to a route without a configured timeout was answered 502 five
\* seconds after it was handed to the client
C17_Witness ==
    /\ last.op = "responded"
    /\ last.cause = "timeout"
    /\ cfg.routing[1].proxy.v.timeout = 0
    /\ now - last.started = 5
    /\ Len(last.sent) = 1
    /\ last.res.status = 502

\* ---------------------------------------------- specification: listings

\* entries of a listed directory
MaxEntries == 3

NameD == <<"d">>

ListingNames == {<<"a">>, <<"A">>, <<"b">>, <<"a", "B">>}

\* the site with directory d holding the entries of `kinds`, a function
\* from names to "file" or "dir"
FsListed(kinds) ==
    [p \in {<<NameSrv>>, <<NameSrv, NameD>>}
            \cup {<<NameSrv, NameD, n>> : n \in DOMAIN kinds} |->
        IF Len(p) < 3 THEN Dir
        ELSE IF kinds[p[3]] = "dir" THEN Dir ELSE File(<<"x">>, TRUE)]

ListingFileSystems ==
    {FsListed(k) :
        k \in UNION {[S -> {"file", "dir"}] :
                        S \in {T \in SUBSET ListingNames : Cardinality(T) <= MaxEntries}}}

InitListing ==
    /\ cfg = [DefaultConfig EXCEPT !.auto_index = TRUE]
    /\ fs \in ListingFileSystems
    /\ limiter = NoKeys
    /\ now = 0
    /\ last = [op |-> "none"]

\* two renderings of one directory for one request path
Rendered(rel, o1, o2, r1, r2) ==
    [op |-> "render", rel |-> rel, order1 |-> o1, order2 |-> o2,
     ok |-> r1.ok /\ r2.ok, html1 |-> r1.html, html2 |-> r2.html]

\* render_directory_listing(&fs_path, rel) is called for the root or for d,
\* twice, read_dir yielding the entries in an order of its own each time
RenderListing ==
    /\ last.op = "none"
    /\ \E rel \in {<<>>, NameD} :
        \E o1 \in Orders(DirEntries(fs, StaticPath(cfg, rel).path)),
           o2 \in Orders(DirEntries(fs, StaticPath(cfg, rel).path)) :
            last' = Rendered(rel, o1, o2,
                             render_directory_listing(fs, StaticPath(cfg, rel).path, rel, o1),
                             render_directory_listing(fs, StaticPath(cfg, rel).path, rel, o2))
    /\ UNCHANGED <<cfg, fs, limiter, now>>

NextListing == RenderListing \/ Done

SpecListing == InitListing /\ [][NextListing]_vars

\* the entries of a listing, read off its HTML: the text of each link but
\* the parent link, and whether its URL ends with "/"
ListedEntries(html) ==
    LET chunks == SelectSeq(Split(html, "</a></li>"),
                            LAMBDA ch : \E i \in 1..Len(ch) : ch[i] = ">")
        link(ch) == Split(Split(ch, "<li><a href=")[Len(Split(ch, "<li><a href="))], ">")
    IN  [k \in 1..Len(chunks) |->
            [name |-> link(chunks[k])[2],
             is_dir |-> link(chunks[k])[1][Len(link(chunks[k])[1])] = "/"]]

\* directories before files, and each group by lowercased name
InListingOrder(items) ==
    \A i, j \in 1..Len(items) :
        i < j => /\ ~(~items[i].is_dir /\ items[j].is_dir)
                 /\ items[i].is_dir = items[j].is_dir
                        => StrCmp(ToLowercase(items[i].name), ToLowercase(items[j].name)) <= 0

\* C19: in the HTML of every listing each entry of the directory is there
\* once, every directory entry comes before every file entry, and within
\* the directories and within the files the lowercased names do not decrease.
C19_DirsFirstThenByName ==
    (last.op = "render" /\ last.ok)
        => /\ InListingOrder(ListedEntries(last.html1))
           /\ Len(ListedEntries(last.html1)) = Len(last.order1)
           /\ {ListedEntries(last.html1)[i].name : i \in 1..Len(last.order1)}
                = {last.order1[i] : i \in 1..Len(last.order1)}
           /\ \A i \in 1..Len(last.order1) :
                ListedEntries(last.html1)[i].is_dir
                    = (fs[Append(StaticPath(cfg, last.rel).path,
                                 ListedEntries(last.html1)[i].name)].kind = "dir")

\* read_dir yielded the file b, the directory aB and the file A in this
\* order, and the listing has aB, A, b
C19_Witness ==
    /\ last.op = "render"
    /\ last.rel = NameD
    /\ last.order1 = <<<<"b">>, <<"a", "B">>, <<"A">>>>
    /\ fs[<<NameSrv, NameD, <<"a", "B">>>>].kind = "dir"
    /\ fs[<<NameSrv, NameD, <<"b">>>>].kind = "file"
    /\ fs[<<NameSrv, NameD, <<"A">>>>].kind = "file"
    /\ ListedEntries(last.html1)
        = <<[name |-> <<"a", "B">>, is_dir |-> TRUE], [name |-> <<"A">>, is_dir |-> FALSE],
            [name |-> <<"b">>, is_dir |-> FALSE]>>

\* C20: two renderings of a directory for the same request path give the
\* same HTML, whatever the orders in which read_dir yields the entries.
C20_SameHtml ==
    (last.op = "render" /\ last.ok) => last.html1 = last.html2

\* --------------------------------------- specification: response streaming

\* frames of an upstream body
MaxFrames == 2

FrameKinds ==
    {[kind |-> "data", bytes |-> <<"a">>], [kind |-> "data", bytes |-> <<"b">>],
     [kind |-> "trailers", bytes |-> <<>>]}

\* the bodies an upstream sends: up to MaxFrames frames
UpstreamBodies == UNION {[1..n -> FrameKinds] : n \in 0..MaxFrames}

\* status, version and headers of the upstream responses
UpstreamHeads ==
    {[status |-> o.res.status, version |-> o.res.version, headers |-> o.res.headers] :
        o \in {u \in UpstreamOutcomes :
                    u.kind = "response"
                    /\ DOMAIN u.res.headers \in {HopByHop, {"content-type", "upgrade"}}}}

\* the response proxy_forward returns when the head of the upstream response
\* is there: the body is a stream over frames that are still to arrive
Streaming(req, head, frames, res) ==
    [op |-> "streaming", req |-> req, head |-> head, frames |-> frames, arrived |-> 0,
     broken |-> FALSE,
     res |-> [status |-> res.status, version |-> res.version, headers |-> res.headers],
     delivered |-> <<>>]

\* the upstream answers a forwarded request within the timeout
StartStream ==
    /\ last.op = "none"
    /\ \E req \in {r \in ForwardRequests : r.tail = <<"x">>},
          head \in UpstreamHeads, frames \in UpstreamBodies :
        last' = Streaming(req, head, frames,
                          proxy_forward(ProxyStateNew(cfg.routing[1].proxy.v), req.tail, req,
                                        [kind |-> "response",
                                         res |-> [status |-> head.status,
                                                  version |-> head.version,
                                                  headers |-> head.headers,
                                                  frames |-> <<>>]]).res)
    /\ UNCHANGED <<cfg, fs, limiter, now>>

\* the next frame of the upstream body arrives
FrameArrives ==
    /\ last.op = "streaming"
    /\ ~last.broken
    /\ last.arrived < Len(last.frames)
    /\ last' = [last EXCEPT !.arrived = @ + 1]
    /\ UNCHANGED <<cfg, fs, limiter, now>>

\* the connection to the upstream fails before the body is complete
UpstreamBreaks ==
    /\ last.op = "streaming"
    /\ ~last.broken
    /\ last.arrived < Len(last.frames)
    /\ last' = [last EXCEPT !.broken = TRUE]
    /\ UNCHANGED <<cfg, fs, limiter, now>>

\* the server polls the body and writes the chunk it yields to the client
DeliverChunk ==
    /\ last.op = "streaming"
    /\ Len(last.delivered) < Len(StreamBody(SubSeq(last.frames, 1, last.arrived)))
    /\ last' = [last EXCEPT !.delivered =
                    Append(@, StreamBody(SubSeq(last.frames, 1, last.arrived))[Len(@) + 1])]
    /\ UNCHANGED <<cfg, fs, limiter, now>>

NextStream == StartStream \/ FrameArrives \/ UpstreamBreaks \/ DeliverChunk

\* the server keeps writing what the body yields; the upstream is under no
\* obligation to send more
SpecStream ==
    /\ InitProxy
    /\ [][NextStream]_vars
    /\ WF_vars(DeliverChunk)

\* C23: the response to the client has the status and version of the
\* upstream response and its headers without the hop-by-hop ones; the chunks
\* delivered are the data of the frames received, in their order and once
\* each (a trailers frame gives an empty chunk); and a frame that has
\* arrived is delivered whether or not the rest of the body ever arrives.
C23_StreamedResponse ==
    /\ [](last.op = "streaming"
            => /\ last.res.status = last.head.status
               /\ last.res.version = last.head.version
               /\ DOMAIN last.res.headers = DOMAIN last.head.headers \ HopByHop
               /\ \A n \in DOMAIN last.res.headers :
                        last.res.headers[n] = last.head.headers[n]
               /\ Len(last.delivered) <= last.arrived
               /\ \A i \in 1..Len(last.delivered) :
                        last.delivered[i] = IF last.frames[i].kind = "data"
                                            THEN last.frames[i].bytes ELSE <<>>)
    /\ \A k \in 1..MaxFrames :
            (last.op = "streaming" /\ last.arrived >= k)
                ~> (last.op = "streaming" /\ Len(last.delivered) >= k)

\* the first chunk is with the client while the second frame of the
\* upstream body has not arrived
C23_Witness ==
    /\ last.op = "streaming"
    /\ last.head.status = 429
    /\ "upgrade" \in DOMAIN last.head.headers
    /\ Len(last.frames) = 2
    /\ last.arrived = 1
    /\ last.delivered = <<<<"a">>>>

\* ----------------------------------------------- specification: router

\* a proxy target no other route has
OtherProxy == [url |-> <<"http://other", "/">>, timeout |-> 0, add_headers |-> <<>>]

\* the routing sections of the configurations
Routings ==
    {<<>>,
     <<Route(<<"/">>, "static", [some |-> FALSE, v |-> NoProxy])>>,
     <<Route(<<"/", "a">>, "static", [some |-> FALSE, v |-> NoProxy])>>,
     <<Route(<<"/", "a", "/">>, "static", [some |-> FALSE, v |-> NoProxy])>>,
     <<Route(<<"/", "a">>, "static", Some(OtherProxy))>>,
     <<Route(<<"/">>, "static", Some(OtherProxy)), SiteRoutes[2]>>,
     <<Route(<<"/", "a">>, "other", [some |-> FALSE, v |-> NoProxy])>>,
     <<Route(<<"/", "b">>, "none", [some |-> FALSE, v |-> NoProxy]),
       Route(<<"/", "a">>, "static", [some |-> FALSE, v |-> NoProxy])>>,
     <<Route(<<"/", "a", "/", "*">>, "other", Some(OtherProxy))>>,
     <<SiteRoutes[2]>>,
     SiteRoutes}

\* the SPA fallback paths of the configurations
FallbackPaths == Strs(PathChars, MaxLen) \cup NamedPaths \cup {<<"/", "index", ".", "html">>}

RouterConfigs ==
    {[DefaultConfig EXCEPT !.routing = r] : r \in Routings}
    \cup {[DefaultConfig EXCEPT !.routing = r,
                                !.spa = [enabled |-> TRUE,
                                         fallback |-> <<"index", ".", "html">>]] :
            r \in {<<>>, <<SiteRoutes[1]>>, SiteRoutes,
                   <<Route(<<"/", "a">>, "static", [some |-> FALSE, v |-> NoProxy])>>}}
    \cup {[DefaultConfig EXCEPT !.routing = <<SiteRoutes[2]>>,
                                !.spa = [enabled |-> TRUE, fallback |-> fb]] :
            fb \in FallbackPaths}

\* a site whose index.html is a link to a file outside the root
FsLinkedIndex ==
    (<<NameSrv>> :> Dir)
    @@ (<<NameSrv, NameIndex>> :> Symlink(<<NameEtc, NameA>>))
    @@ FsMissing

RouterFileSystems == {FsSite, FsFlat, FsLinkedIndex}

RouteChars == {"/", "a", "b"}

\* the request paths: "/" followed by up to MaxLen - 1 characters, and
\* paths below the proxied prefix
RoutePaths ==
    {<<"/">> \o t : t \in Strs(RouteChars, MaxLen - 1)}
    \cup {<<"/", "api">>, <<"/", "api", "/">>, <<"/", "api", "/", "x">>}

InitRouter ==
    /\ cfg \in RouterConfigs
    /\ fs \in RouterFileSystems
    /\ limiter = NoKeys
    /\ now = 0
    /\ last = [op |-> "none"]

\* the record of a request the router handled
Routed(req, router, h) ==
    [op |-> "route", req |-> req, routes |-> router.routes, fallback |-> router.fallback,
     handler |-> h.handler, tail |-> h.tail, res |-> h.res, lookups |-> h.lookups,
     sent |-> h.sent]

RoutedBy(c, f, req, env, router) ==
    Routed(req, router, RouteHandler(c, f, router, req, env))

\* the paths asked of a configuration: two of them where only the fallback
\* path varies
RequestPathsOf(c) ==
    IF c.spa.enabled /\ c.routing = <<SiteRoutes[2]>>
    THEN {<<"/">>, <<"/", "a">>}
    ELSE RoutePaths

\* the router built at startup is called with a request
RouteRequest ==
    /\ last.op = "none"
    /\ \E pa \in RequestPathsOf(cfg),
          m \in {"GET", "POST"} :
        last' = RoutedBy(cfg, fs,
                         [method |-> m, path |-> pa, query |-> Nothing, body |-> <<>>,
                          headers |-> <<>>, peer |-> "198.51.100.7",
                          ext |-> SocketAddrExtension("198.51.100.7")],
                         [upstream |-> [kind |-> "response",
                                        res |-> [status |-> 200, version |-> "HTTP/1.1",
                                                 headers |-> <<>>, frames |-> <<>>]],
                          order |-> <<>>],
                         build_router(cfg, fs))
    /\ UNCHANGED <<cfg, fs, limiter, now>>

NextRouter == RouteRequest \/ Done

SpecRouter == InitRouter /\ [][NextRouter]_vars

\* C12: for every declared route with both serve: static and a proxy target,
\* a static route and no proxy route is mounted at its prefix, and no request
\* is ever forwarded to its target.
C12_StaticWinsOverProxy ==
    last.op = "route"
        => \A i \in 1..Len(cfg.routing) :
            (cfg.routing[i].serve = "static" /\ cfg.routing[i].proxy.some)
                => /\ \E k \in 1..Len(last.routes) :
                        /\ last.routes[k].handler = "static"
                        /\ last.routes[k].prefix
                            = TrimEndMatches(cfg.routing[i].path, "/") \o <<"/">>
                   /\ \A k \in 1..Len(last.routes) :
                        last.routes[k].proxy.url # cfg.routing[i].proxy.v.url
                   /\ \A k \in 1..Len(last.sent) :
                        ~StartsWith(last.sent[k].uri, <<"http://other">>)

\* a request below the prefix of a route that declares both was served by
\* the static responder
C12_Witness ==
    /\ last.op = "route"
    /\ Len(cfg.routing) = 1
    /\ cfg.routing[1].serve = "static"
    /\ cfg.routing[1].proxy.some
    /\ last.req.path = <<"/", "a", "/", "a">>
    /\ last.handler = "static"
    /\ last.sent = <<>>

\* C13: with no route declared the router has exactly the exact and the tail
\* route of a static mount at "/", so that every path is handled by the
\* static responder; when a declared route is mounted, a static route at "/"
\* is there only if one is declared.
C13_DefaultStaticRoute ==
    last.op = "route"
        => /\ cfg.routing = <<>>
                => /\ Len(last.routes) = 2
                   /\ \A k \in 1..2 : /\ last.routes[k].handler = "static"
                                      /\ last.routes[k].prefix = <<"/">>
                   /\ last.routes[1].kind # last.routes[2].kind
                   /\ last.handler = "static"
           /\ (\E i \in 1..Len(cfg.routing) :
                    cfg.routing[i].serve = "static" \/ cfg.routing[i].proxy.some)
                => \A k \in 1..Len(last.routes) :
                    (last.routes[k].handler = "static" /\ last.routes[k].prefix = <<"/">>)
                        => \E i \in 1..Len(cfg.routing) :
                            /\ cfg.routing[i].serve = "static"
                            /\ TrimEndMatches(cfg.routing[i].path, "/") = <<>>

\* with no route declared, /a/a was handled by the static responder
C13_Witness ==
    /\ last.op = "route"
    /\ cfg.routing = <<>>
    /\ last.req.path = <<"/", "a", "/", "a">>
    /\ last.req.method = "GET"
    /\ last.handler = "static"
    /\ last.res.status = 200

\* C14: when the only declared route is a static route at P: for P = "/" the
\* path "/" is handled with an empty tail and "/t" with tail t; for another P
\* exactly the paths P/t with a non-empty t are handled, with tail t, and
\* every other path is handled by no route.
C14_StaticRouteSubtree ==
    (/\ last.op = "route"
     /\ Len(cfg.routing) = 1
     /\ cfg.routing[1].serve = "static"
     /\ ~cfg.spa.enabled)
        => IF cfg.routing[1].path = <<"/">>
           THEN /\ last.handler = "static"
                /\ last.req.path = <<"/">> \o last.tail
           ELSE IF /\ StartsWith(last.req.path,
                                 TrimEndMatches(cfg.routing[1].path, "/") \o <<"/">>)
                   /\ Len(last.req.path) > Len(TrimEndMatches(cfg.routing[1].path, "/")) + 1
           THEN /\ last.handler = "static"
                /\ last.req.path
                    = TrimEndMatches(cfg.routing[1].path, "/") \o <<"/">> \o last.tail
           ELSE last.handler = "not_found"

\* with a static route at /a, the path /a/b was handled with tail b, and
\* with a static route at "/", the path "/" with an empty tail
C14_Witness ==
    /\ last.op = "route"
    /\ Len(cfg.routing) = 1
    /\ cfg.routing[1].serve = "static"
    /\ \/ /\ cfg.routing[1].path = <<"/", "a">>
          /\ last.req.path = <<"/", "a", "/", "b">>
          /\ last.tail = <<"b">>
          /\ last.handler = "static"
       \/ /\ cfg.routing[1].path = <<"/">>
          /\ last.req.path = <<"/">>
          /\ last.tail = <<>>
          /\ last.handler = "static"

\* the canonical form of p is at or below the canonical form of the root
WithinRoot(f, root, p) ==
    (Canonicalize(f, root).ok /\ Canonicalize(f, p).ok)
        => StartsWith(Canonicalize(f, p).path, Canonicalize(f, root).path)

\* C15: with SPA fallback enabled the router has a fallback: the path the
\* resolver accepted, or root/index.html when it rejected the configured one,
\* and in neither case a file outside the root.
C15_FallbackWithinRoot ==
    (last.op = "route" /\ cfg.spa.enabled)
        => /\ last.fallback.ok
           /\ last.fallback.path
                = IF resolve_path_within_root(fs, cfg.root,
                                              TrimStartMatches(cfg.spa.fallback, "/")).ok
                  THEN resolve_path_within_root(fs, cfg.root,
                                                TrimStartMatches(cfg.spa.fallback, "/")).path
                  ELSE Append(cfg.root, <<"index", ".", "html">>)
           /\ WithinRoot(fs, cfg.root, last.fallback.path)

\* ---------------------------------------------- specification: startup

NameCert == <<"cert">>
NameKey == <<"key">>
NameLocked == <<"locked">>

\* a machine with a certificate, a key and a file that cannot be read
FsTls ==
    (<<NameEtc, NameCert>> :> File(<<"c">>, TRUE))
    @@ (<<NameEtc, NameKey>> :> File(<<"k">>, TRUE))
    @@ (<<NameEtc, NameLocked>> :> File(<<"k">>, FALSE))
    @@ FsSite

\* the values of tls.cert_path and tls.key_path: empty, the files above, a
\* directory, and a path that names nothing
TlsPaths ==
    {<<>>, <<NameEtc, NameCert>>, <<NameEtc, NameKey>>, <<NameEtc, NameLocked>>,
     <<NameEtc>>, <<NameEtc, NameA, NameA>>}

StartupConfigs ==
    {[DefaultConfig EXCEPT !.tls = [enabled |-> en, cert_path |-> cp, key_path |-> kp]] :
        en \in BOOLEAN, cp \in TlsPaths, kp \in TlsPaths}

\* a validation that stops after the metadata of the two files
validate_tls_metadata_only(c, f) ==
    IF ~c.tls.enabled THEN TRUE
    ELSE IF c.tls.cert_path = <<>> \/ c.tls.key_path = <<>> THEN FALSE
    ELSE Metadata(f, c.tls.cert_path).kind = "file"
         /\ Metadata(f, c.tls.key_path).kind = "file"

\* validate_tls(cfg): TRUE for Ok(()), FALSE for an error
validate_tls(c, f) ==
    IF ~c.tls.enabled THEN TRUE
    ELSE IF c.tls.cert_path = <<>> \/ c.tls.key_path = <<>> THEN FALSE
    ELSE IF Metadata(f, c.tls.cert_path).kind # "file"
            \/ Metadata(f, c.tls.key_path).kind # "file" THEN FALSE
    ELSE Metadata(f, c.tls.cert_path).readable /\ Metadata(f, c.tls.key_path).readable

\* main has read the configuration
InitStartup ==
    /\ cfg \in StartupConfigs
    /\ fs = FsTls
    /\ limiter = NoKeys
    /\ now = 0
    /\ last = [op |-> "startup", stage |-> "start", validate |-> "pending",
               bound |-> FALSE, routes |-> 0]

\* validate_tls(&cfg).await?
ValidateTls ==
    /\ last.op = "startup"
    /\ last.stage = "start"
    /\ last' = IF validate_tls(cfg, fs)
               THEN [last EXCEPT !.stage = "validated", !.validate = "ok"]
               ELSE [last EXCEPT !.stage = "exited", !.validate = "err"]
    /\ UNCHANGED <<cfg, fs, limiter, now>>

\* the state, build_router(&state)? and the layers
BuildApp ==
    /\ last.op = "startup"
    /\ last.stage = "validated"
    /\ last' = [last EXCEPT !.stage = "built",
                            !.routes = Len(build_router(cfg, fs).routes)]
    /\ UNCHANGED <<cfg, fs, limiter, now>>

\* load_tls_config(&state.cfg).await?: the files may fail to parse
LoadTlsConfig ==
    /\ last.op = "startup"
    /\ last.stage = "built"
    /\ cfg.tls.enabled
    /\ \E ok \in BOOLEAN :
        last' = [last EXCEPT !.stage = IF ok THEN "loaded" ELSE "exited"]
    /\ UNCHANGED <<cfg, fs, limiter, now>>

\* bind_rustls(addr, tls) or TcpListener::bind(addr): the address may be taken
BindListener ==
    /\ last.op = "startup"
    /\ last.stage = IF cfg.tls.enabled THEN "loaded" ELSE "built"
    /\ \E ok \in BOOLEAN :
        last' = [last EXCEPT !.stage = IF ok THEN "listening" ELSE "exited", !.bound = ok]
    /\ UNCHANGED <<cfg, fs, limiter, now>>

NextStartup == ValidateTls \/ BuildApp \/ LoadTlsConfig \/ BindListener

SpecStartup == InitStartup /\ [][NextStartup]_vars

\* the path is empty or does not name a readable regular file
NotReadableFile(f, p) ==
    \/ p = <<>>
    \/ p \notin DOMAIN f
    \/ f[p].kind # "file"
    \/ ~f[p].readable

\* C21: with TLS enabled and a certificate or key path that is empty or
\* names no readable regular file, validate_tls returns an error and the
\* process exits with no listening socket ever bound; with TLS disabled
\* validate_tls succeeds.
C21_NoBindWithoutTlsFiles ==
    last.op = "startup"
        => /\ (/\ cfg.tls.enabled
               /\ \/ NotReadableFile(fs, cfg.tls.cert_path)
                  \/ NotReadableFile(fs, cfg.tls.key_path))
                => /\ ~last.bound
                   /\ last.validate # "ok"
                   /\ last.stage \in {"start", "exited"}
           /\ ~cfg.tls.enabled => last.validate # "err"

\* TLS is enabled with a certificate and a key file that cannot be read,
\* and the process has exited after the validation failed
C21_Witness ==
    /\ last.op = "startup"
    /\ cfg.tls.enabled
    /\ cfg.tls.cert_path = <<NameEtc, NameCert>>
    /\ cfg.tls.key_path = <<NameEtc, NameLocked>>
    /\ last.stage = "exited"
    /\ last.validate = "err"
    /\ ~last.bound

\* ------------------------------------------------ claims on the router

\* a static route at "/" is declared, or no declared route mounts anything
StaticAtRoot(c) ==
    \/ \E i \in 1..Len(c.routing) :
            c.routing[i].serve = "static" /\ c.routing[i].path = <<"/">>
    \/ \A i \in 1..Len(c.routing) :
            c.routing[i].serve # "static" /\ ~c.routing[i].proxy.some

\* a declared proxy route matches the path
ProxyRouteMatches(c, path) ==
    \E i \in 1..Len(c.routing) :
        /\ c.routing[i].serve # "static"
        /\ c.routing[i].proxy.some
        /\ StartsWith(path, TrimEndMatches(c.routing[i].path, "*"))
        /\ Len(path) > Len(TrimEndMatches(c.routing[i].path, "*"))

\* C26 as stated: with SPA fallback enabled and a static route at "/", every
\* request is handled by the static responder, and a GET for a path missing
\* under the root is answered 404.
C26_EveryPathStatic ==
    (last.op = "route" /\ cfg.spa.enabled /\ StaticAtRoot(cfg))
        => /\ last.handler = "static"
           /\ (/\ last.req.method = "GET"
               /\ Metadata(fs, cfg.root \o NameSegments(last.tail)).kind = "missing")
                => last.res.status = 404

\* C26, amended: with SPA fallback enabled and a static route at "/", no
\* request is handled by the fallback; a request that no declared proxy
\* route matches is handled by the static responder, and a GET for a path
\* missing under the root is answered 404.
C26_FallbackNeverServed ==
    (last.op = "route" /\ cfg.spa.enabled /\ StaticAtRoot(cfg))
        => /\ last.handler # "fallback"
           /\ last.handler = IF ProxyRouteMatches(cfg, last.req.path)
                             THEN "proxy" ELSE "static"
           /\ (/\ last.handler = "static"
               /\ last.req.method = "GET"
               /\ Metadata(fs, cfg.root \o NameSegments(last.tail)).kind = "missing")
                => last.res.status = 404

\* with the fallback enabled and no route declared, GET /b, which does not
\* exist, was answered 404 by the static responder although the fallback
\* file exists
C26_Witness ==
    /\ last.op = "route"
    /\ cfg.spa.enabled
    /\ cfg.routing = <<>>
    /\ last.fallback.ok
    /\ Metadata(fs, last.fallback.path).kind = "file"
    /\ last.req.method = "GET"
    /\ last.req.path = <<"/", "b">>
    /\ last.handler = "static"
    /\ last.res.status = 404

\* the configuration with one static route, at "/"
RootStatic(c) ==
    [c EXCEPT !.routing = <<Route(<<"/">>, "static", [some |-> FALSE, v |-> NoProxy])>>]

\* what a root static route answers to path, other things equal
RootAnswer(c, f, req, path) ==
    RouteHandler(RootStatic(c), f, build_router(RootStatic(c), f),
                 [req EXCEPT !.path = path], [upstream |-> [kind |-> "error"], order |-> <<>>])

\* C28: with a single static route at a non-root prefix P, a request for P/t
\* is answered from the root joined with the segments of t alone: the first
\* lookup is of that path, and response and lookups are those of a root
\* static route for /t.
C28_PrefixAddsNoSegment ==
    (/\ last.op = "route"
     /\ Len(cfg.routing) = 1
     /\ cfg.routing[1].serve = "static"
     /\ cfg.routing[1].path # <<"/">>
     /\ last.handler = "static")
        => /\ last.req.path = TrimEndMatches(cfg.routing[1].path, "/") \o <<"/">> \o last.tail
           /\ last.req.method = "GET"
                => /\ Len(last.lookups) >= 1
                   /\ last.lookups[1].path = cfg.root \o NameSegments(last.tail)
           /\ last.res = RootAnswer(cfg, fs, last.req, <<"/">> \o last.tail).res
           /\ last.lookups = RootAnswer(cfg, fs, last.req, <<"/">> \o last.tail).lookups

\* with a static route at /a and a file a in the root, GET /a/a was
\* answered with that file
C28_Witness ==
    /\ last.op = "route"
    /\ fs = FsFlat
    /\ Len(cfg.routing) = 1
    /\ cfg.routing[1].serve = "static"
    /\ cfg.routing[1].path = <<"/", "a">>
    /\ last.req.path = <<"/", "a", "/", "a">>
    /\ last.req.method = "GET"
    /\ last.res.status = 200
    /\ last.res.body = <<"x", "y", "z">>
    /\ last.lookups[1].path = <<NameSrv, NameA>>

\* the routes a declared route adds to the table
RoutesOf(r) ==
    IF r.serve = "static" THEN (IF r.path = <<"/">> THEN 2 ELSE 1)
    ELSE IF r.proxy.some THEN 1 ELSE 0

RECURSIVE RoutesOfAll(_)
RoutesOfAll(rs) == IF rs = <<>> THEN 0 ELSE RoutesOf(Head(rs)) + RoutesOfAll(Tail(rs))

\* C29: the table build_router returns is never empty; a declared route
\* without serve: static and without a proxy adds no route to it; and when
\* the declared routes add none, the table is the static route at "/", which
\* handles the request.
C29_RouteTableNotEmpty ==
    last.op = "route"
        => /\ Len(last.routes) >= 1
           /\ IF RoutesOfAll(cfg.routing) = 0
              THEN /\ Len(last.routes) = 2
                   /\ \A k \in 1..2 : /\ last.routes[k].handler = "static"
                                      /\ last.routes[k].prefix = <<"/">>
                   /\ {last.routes[1].kind, last.routes[2].kind} = {"exact", "tail"}
                   /\ last.handler = "static"
              ELSE Len(last.routes) = RoutesOfAll(cfg.routing)

\* a route with serve: other and no proxy was declared at /a, and /a/b was
\* handled by the default static route
C29_Witness ==
    /\ last.op = "route"
    /\ Len(cfg.routing) = 1
    /\ cfg.routing[1].serve = "other"
    /\ ~cfg.routing[1].proxy.some
    /\ last.req.path = <<"/", "a", "/", "b">>
    /\ last.handler = "static"
    /\ last.tail = <<"a", "/", "b">>
    /\ Len(last.routes) = 2

====
